---- MODULE Spec2Model ----
(***************************************************************************)
(* One-way calendar sync: the feed resolver, the fingerprints and the      *)
(* reconciliation run (syncOnce) of lib/sync.ts, together with the mapping *)
(* table it reads and writes.                                              *)
(*                                                                         *)
(* Modelling conventions                                                   *)
(*  - sha256 over a JSON string is modelled by the tuple of the values     *)
(*    that are serialised (a collision-free hash).                         *)
(*  - An identity string `${uid}_EXCEPTION_${day}` is the tuple            *)
(*    <<uid, "_EXCEPTION_", day>>; a plain uid is the tuple <<uid>>.        *)
(*  - A date is a natural number of half-days; Day(t) is the calendar day  *)
(*    that toISOString().split('T')[0] yields.                             *)
(*  - The feed is the object parseICS returns: one entry per key, in key   *)
(*    order, a master carrying its overrides in `recurrences`.             *)
(*  - One executeWithRetry call is one remote call with one outcome.       *)
(***************************************************************************)
EXTENDS Integers, Sequences, FiniteSets, TLC

(* ------------------------------ bounds -------------------------------- *)
MaxRuns == 3
MaxFeedChanges == 1
MaxFailures == 1
MaxFields == 2

(* ------------------------------ the feed ------------------------------ *)
UidOrder == <<"u", "v">>

\* the value of a property the object does not have
Undefined == "<undefined>"

NoEntry == [present |-> FALSE, uid |-> "", summary |-> "", start |-> "",
            rrule |-> "", recurrenceid |-> "", recurrences |-> <<>>,
            location |-> Undefined, description |-> Undefined,
            end |-> Undefined, transparency |-> Undefined,
            status |-> Undefined, sequence |-> Undefined,
            lastmodified |-> Undefined, organizer |-> Undefined]

VEvent(uid, summary, rrule, rid, recs) ==
    [NoEntry EXCEPT !.present = TRUE, !.uid = uid, !.summary = summary,
                    !.start = "S", !.rrule = rrule, !.recurrenceid = rid,
                    !.recurrences = recs]

\* the same entry marked free (TRANSP:TRANSPARENT)
Transparent(vevent) == [vevent EXCEPT !.transparency = "TRANSPARENT"]

Weekly == "FREQ=WEEKLY;BYDAY=TU"

\* rrule.toString() of a rule whose DTSTART names a Windows time zone
WeeklyEastern ==
    "DTSTART;TZID=Eastern Standard Time:20250107T100000\nRRULE:FREQ=WEEKLY;BYDAY=TU"

\* an override nested in a master's `recurrences`
Nested(summary, rid) == VEvent("", summary, "", rid, <<>>)

NestedSeqs ==
    { <<>>,
      <<Nested("A", "D1")>>,
      <<Nested("B", "D1")>>,
      <<Nested("A", "")>>,
      <<Nested("Canceled: A", "D1")>>,
      <<Nested("A", "D1"), Nested("A", "D2")>>,
      <<Nested("A", "D2"), Nested("A", "D1")>>,
      <<Nested("A", "D1"), Nested("B", "D1")>> }

EntriesOf(uid) ==
    IF uid = "u"
    THEN {NoEntry}
         \cup {VEvent(uid, s, "", "", <<>>) : s \in {"A", "B", "Canceled: A"}}
         \cup {Transparent(VEvent(uid, "A", "", "", <<>>))}
         \cup {VEvent(uid, "A", Weekly, "", ns) : ns \in NestedSeqs}
         \cup {VEvent(uid, "B", Weekly, "", <<>>)}
         \cup {VEvent(uid, "A", WeeklyEastern, "", <<Nested("A", "D1")>>)}
         \cup {VEvent(uid, "A", "", rid, <<>>) : rid \in {"D1", "BAD"}}
         \cup {VEvent(uid, "A", Weekly, "D1", <<Nested("A", "D1")>>)}
    ELSE {NoEntry, VEvent(uid, "A", "", "", <<>>)}

Feeds == {f \in [{"u", "v"} -> EntriesOf("u") \cup EntriesOf("v")] :
            \A k \in {"u", "v"} : f[k] \in EntriesOf(k)}

(* ------------------------------- dates -------------------------------- *)
Day(t) == t \div 2

\* the instant a well-formed occurrence reference denotes
DateOf(rid) == IF rid = "D1" THEN 2 ELSE 4

\* the clock readings later than t: later the same day, or a later day
Later(t) == {t + 1, t + 2}

(* ---------------------------- fingerprints ---------------------------- *)
\* the object literal of createEventFingerprint, in the order it is written
FingerprintData(vevent) ==
    << <<"uid", IF vevent.uid \in {Undefined, ""} THEN "" ELSE vevent.uid>>,
       <<"summary", vevent.summary>>,
       <<"location", vevent.location>>,
       <<"description", vevent.description>>,
       <<"dtstart", vevent.start>>,
       <<"dtend", vevent.end>>,
       <<"transp", vevent.transparency>>,
       <<"status", vevent.status>>,
       <<"sequence", vevent.sequence>>,
       <<"last-modified", vevent.lastmodified>> >>

\* Object.keys(fingerprintData).sort(): the ten keys in code-unit order
SortedKeys == <<"description", "dtend", "dtstart", "last-modified", "location",
                "sequence", "status", "summary", "transp", "uid">>

ValueOf(data, key) ==
    data[CHOOSE i \in 1..Len(data) : data[i][1] = key][2]

\* JSON.stringify(data, keys): the listed keys in the order of the list, a
\* property whose value is undefined left out
RECURSIVE JSONStringify(_, _)
JSONStringify(data, keys) ==
    IF keys = <<>> THEN <<>>
    ELSE (IF ValueOf(data, Head(keys)) = Undefined THEN <<>>
          ELSE << <<Head(keys), ValueOf(data, Head(keys))>> >>)
         \o JSONStringify(data, Tail(keys))

\* variant: the transparency is not among the hashed keys
createEventFingerprint_NoTransp(vevent) ==
    JSONStringify(FingerprintData(vevent),
                  SelectSeq(SortedKeys, LAMBDA k : k # "transp"))

createEventFingerprint(vevent) ==
    JSONStringify(FingerprintData(vevent), SortedKeys)

\* variant: the exceptions' own fingerprints are left out of the hash
createMasterEventFingerprint_NoExceptionHash(master, exceptions) ==
    << master.uid, master.fingerprint, master.rrule,
       [i \in 1..Len(exceptions) |->
           << exceptions[i].uid, exceptions[i].exceptionDate,
              exceptions[i].vevent.start >>] >>

createMasterEventFingerprint(master, exceptions) ==
    << master.uid, master.fingerprint, master.rrule,
       [i \in 1..Len(exceptions) |->
           << exceptions[i].uid, exceptions[i].exceptionDate,
              exceptions[i].vevent.start, exceptions[i].fingerprint >>] >>

(* ------------------------------ resolver ------------------------------ *)
SkipTitles == {"Canceled:", "Declined:"}

\* summary.includes(title), tabulated for the summaries of the feed
Includes(summary, title) == <<summary, title>> \in {<<"Canceled: A", "Canceled:">>}

shouldSkipEvent(vevent) ==
    /\ vevent.summary \notin {Undefined, ""}
    /\ \E t \in SkipTitles : Includes(vevent.summary, t)

extractOriginalUidFromException(vevent) == vevent.uid

parseRecurrenceId(rid, now) ==
    IF rid \in {"D1", "D2"} THEN DateOf(rid) ELSE now

ExceptionUid(originalUid, exceptionDate) ==
    <<originalUid, "_EXCEPTION_", Day(exceptionDate)>>

ExceptionEvent(vevent, fingerprint, originalUid, exceptionDate) ==
    [uid |-> ExceptionUid(originalUid, exceptionDate), vevent |-> vevent,
     fingerprint |-> fingerprint, rrule |-> "", originalUid |-> originalUid,
     exceptionDate |-> exceptionDate, isException |-> TRUE]

PlainEvent(key, vevent, rrule) ==
    [uid |-> <<key>>, vevent |-> vevent,
     fingerprint |-> createEventFingerprint(vevent), rrule |-> rrule,
     originalUid |-> "", exceptionDate |-> 0, isException |-> FALSE]

IsExceptionEntry(vevent) == vevent.recurrenceid # ""

\* variant: the rule is tested without regard to the occurrence reference
IsMasterEntry_RuleFirst(vevent) == vevent.rrule # ""

IsMasterEntry(vevent) == ~IsExceptionEntry(vevent) /\ vevent.rrule # ""

\* the overrides found in a master's `recurrences` property
NestedExceptions(key, vevent, now) ==
    [i \in 1..Len(vevent.recurrences) |->
        LET recEvent == vevent.recurrences[i]
            originalUid == IF recEvent.uid # "" THEN recEvent.uid ELSE key
            exceptionDate == IF recEvent.recurrenceid # ""
                             THEN DateOf(recEvent.recurrenceid) ELSE now
        IN ExceptionEvent(recEvent, createEventFingerprint(recEvent),
                          originalUid, exceptionDate)]

Retained(f, key, includeFiltered) ==
    f[key].present /\ (includeFiltered \/ ~shouldSkipEvent(f[key]))

RECURSIVE RecurringEventsFrom(_, _, _)
RecurringEventsFrom(f, i, includeFiltered) ==
    IF i > Len(UidOrder) THEN <<>>
    ELSE LET key == UidOrder[i]
         IN (IF Retained(f, key, includeFiltered) /\ IsMasterEntry(f[key])
             THEN <<PlainEvent(key, f[key], f[key].rrule)>> ELSE <<>>)
            \o RecurringEventsFrom(f, i + 1, includeFiltered)

RECURSIVE RecurringExceptionsFrom(_, _, _, _)
RecurringExceptionsFrom(f, i, now, includeFiltered) ==
    IF i > Len(UidOrder) THEN <<>>
    ELSE LET key == UidOrder[i]
             vevent == f[key]
         IN (IF ~Retained(f, key, includeFiltered) THEN <<>>
             ELSE IF IsExceptionEntry(vevent)
             THEN <<ExceptionEvent(vevent, createEventFingerprint(vevent),
                        extractOriginalUidFromException(vevent),
                        parseRecurrenceId(vevent.recurrenceid, now))>>
             ELSE IF IsMasterEntry(vevent)
             THEN NestedExceptions(key, vevent, now)
             ELSE <<>>)
            \o RecurringExceptionsFrom(f, i + 1, now, includeFiltered)

RECURSIVE IndividualEventsFrom(_, _, _)
IndividualEventsFrom(f, i, includeFiltered) ==
    IF i > Len(UidOrder) THEN <<>>
    ELSE LET key == UidOrder[i]
         IN (IF Retained(f, key, includeFiltered)
                /\ ~IsExceptionEntry(f[key]) /\ ~IsMasterEntry(f[key])
             THEN <<PlainEvent(key, f[key], "")>> ELSE <<>>)
            \o IndividualEventsFrom(f, i + 1, includeFiltered)

fetchAndParseICSWithRecurrence(f, now, includeFiltered) ==
    [parsedEvents |-> IndividualEventsFrom(f, 1, includeFiltered),
     recurringEvents |-> RecurringEventsFrom(f, 1, includeFiltered),
     recurringExceptions |-> RecurringExceptionsFrom(f, 1, now, includeFiltered)]

\* does resolving the feed read the clock (the `new Date()` fallbacks)
ReadsClock(f) ==
    \E k \in DOMAIN f :
        /\ f[k].present
        /\ \/ f[k].recurrenceid \notin {"", "D1", "D2"}
           \/ /\ IsMasterEntry(f[k])
              /\ \E i \in 1..Len(f[k].recurrences) :
                    f[k].recurrences[i].recurrenceid = ""

(* --------------------------- the sync state --------------------------- *)
VARIABLES
    feed,                \* the calendar the ICS URL serves
    clock,               \* the last reading of the wall clock
    store,               \* prisma.mapping: the rows, in insertion order
    remote,              \* ids of the events in the Google calendar
    nextId,              \* the id the next events.insert returns
    lastLog,             \* the row syncOnce wrote to prisma.syncLog
    pc, idx,             \* position of syncOnce: phase and loop index
    fetched,             \* how fetching, parsing and connecting went this run
    parsedEvents, recurringEvents, recurringExceptions,
    existingMappings,    \* the snapshot findMany returned
    uidToGoogleId,       \* the run-local uid -> google id table
    created, updated, deleted, errors,
    trace,               \* history: one record per loop iteration of the run
    store0,              \* history: the store when the run started
    runs, changes, failures,   \* history: counters the bounds cap
    sameFeed,            \* history: feed unchanged since the last run started
    prevClean,           \* history: the last run met no failure and no error
    prevParsed,          \* history: what the last run resolved
    stage,               \* history: consecutive clean runs from an empty store
    lost,                \* history: creates of the last run whose row was not stored
    failed,              \* history: remote calls of the last run that failed
    evA, evB,            \* two event objects: their properties, in insertion order
    fpA, fpB,            \* the fingerprints createEventFingerprint gave for them
    fields,              \* how many properties have been set on the two objects
    dateNow,             \* Date.now(), in milliseconds
    lastRequestTime, requestCount,     \* the fields of the shared limiter
    lpc,                 \* per caller: where its executeWithRetry call stands
    attempt,             \* per caller: the loop variable of executeWithRetry
    wakeAt,              \* per caller: when its pending setTimeout is due
    lastError,           \* per caller: the local lastError
    thrown,              \* per caller: the error its call threw
    tried,               \* history, per caller: the outcome of each invocation
    backoffs,            \* history, per caller: backoff waits of the call
    waits,               \* history, per caller: the delays of those waits, in order
    prevStart, lastStart,    \* history: when the last two operations started
    calls,               \* history: executeWithRetry calls made
    concurrent,          \* history: a call began while another was in progress
    req,                 \* per entry point: the syncOnce call of its request
    tr                   \* the translator: an event, the process zone, the body

runVars == <<pc, idx, fetched, parsedEvents, recurringEvents, recurringExceptions,
             existingMappings, uidToGoogleId, created, updated, deleted,
             errors, trace, store0>>
histVars == <<runs, changes, failures, sameFeed, prevClean, prevParsed, stage,
              lost, failed>>
syncVars == <<feed, clock, store, remote, nextId, lastLog, runVars, histVars>>
objectVars == <<evA, evB, fpA, fpB, fields>>
limiterVars == <<dateNow, lastRequestTime, requestCount, lpc, attempt, wakeAt,
                 lastError, thrown, tried, backoffs, waits, prevStart,
                 lastStart, calls, concurrent>>
entryVars == <<req>>
translatorVars == <<tr>>
auxVars == <<objectVars, limiterVars, entryVars, translatorVars>>
vars == <<syncVars, auxVars>>

NoParsed == [parsedEvents |-> <<>>, recurringEvents |-> <<>>,
             recurringExceptions |-> <<>>]

Row(uid, googleEventId, fingerprint, isException, originalUid, exceptionDate) ==
    [uid |-> uid, googleEventId |-> googleEventId, fingerprint |-> fingerprint,
     isException |-> isException, originalUid |-> originalUid,
     exceptionDate |-> exceptionDate]

Uids(seq) == {seq[i].uid : i \in 1..Len(seq)}

\* Array.prototype.find on uid: the index of the first match, 0 if none
FindIndex(seq, uid) ==
    IF uid \in Uids(seq)
    THEN CHOOSE i \in 1..Len(seq) :
            seq[i].uid = uid /\ \A j \in 1..(i - 1) : seq[j].uid # uid
    ELSE 0

RemoveUid(seq, uid) == SelectSeq(seq, LAMBDA r : r.uid # uid)

\* variant: the created master is not entered in the run-local table
MapSet_Forget(map, uid, id) == map

MapSet(map, uid, id) ==
    [k \in DOMAIN map \cup {uid} |-> IF k = uid THEN id ELSE map[k]]

(* ----------------------------- the phases ----------------------------- *)
\* variant: stale mappings are deleted before the singles are processed
PhaseOrder_DeleteEarly == <<"masters", "exceptions", "deletion", "singles">>

PhaseOrder == <<"masters", "exceptions", "singles", "deletion">>

PhaseLen(phase, rec, exc, ind, maps) ==
    CASE phase = "masters" -> Len(rec)
      [] phase = "exceptions" -> Len(exc)
      [] phase = "singles" -> Len(ind)
      [] phase = "deletion" -> Len(maps)

\* the first phase at or after position k of PhaseOrder with something to loop over
RECURSIVE PhaseFrom(_, _, _, _, _)
PhaseFrom(k, rec, exc, ind, maps) ==
    IF k > Len(PhaseOrder) THEN "done"
    ELSE IF PhaseLen(PhaseOrder[k], rec, exc, ind, maps) > 0 THEN PhaseOrder[k]
    ELSE PhaseFrom(k + 1, rec, exc, ind, maps)

PhaseIndex(phase) == CHOOSE k \in 1..Len(PhaseOrder) : PhaseOrder[k] = phase

\* variant: an error recorded by the iteration ends the run
Advance_AbortOnError ==
    IF Len(errors') > Len(errors)
    THEN /\ pc' = "done"
         /\ idx' = 1
    ELSE IF idx < PhaseLen(pc, recurringEvents, recurringExceptions,
                           parsedEvents, existingMappings)
    THEN /\ pc' = pc
         /\ idx' = idx + 1
    ELSE /\ pc' = PhaseFrom(PhaseIndex(pc) + 1, recurringEvents,
                            recurringExceptions, parsedEvents, existingMappings)
         /\ idx' = 1

\* leave loop iteration idx of the current phase
Advance ==
    IF idx < PhaseLen(pc, recurringEvents, recurringExceptions, parsedEvents,
                      existingMappings)
    THEN /\ pc' = pc
         /\ idx' = idx + 1
    ELSE /\ pc' = PhaseFrom(PhaseIndex(pc) + 1, recurringEvents,
                            recurringExceptions, parsedEvents, existingMappings)
         /\ idx' = 1

(* ------------------------------ messages ------------------------------ *)
ErrorMessage(kind, uid) == [kind |-> kind, uid |-> uid]

\* the catch block of one loop iteration
CatchEvent(errs, kind, uid) == Append(errs, ErrorMessage(kind, uid))

\* variant: the top-level failure is swallowed
TopLevelCatch_Swallow(errs, reason) == errs

\* the top-level catch of syncOnce
TopLevelCatch(errs, reason) == Append(errs, ErrorMessage("Sync failed", <<reason>>))

\* variant: the missing master is reported in the error list
MissingMaster_Recorded(errs, uid) ==
    Append(errs, ErrorMessage("exception event", uid))

\* what the missing-master branch contributes to the error list
MissingMaster(errs, uid) == errs

Entry(phase, uid, op, id, exdates, res, db, note, errs, cnt) ==
    [phase |-> phase, uid |-> uid, op |-> op, id |-> id, exdates |-> exdates,
     res |-> res, db |-> db, note |-> note, nerr |-> Len(errs), ndel |-> cnt]

Abnormal(o) == IF o = "ok" \/ o = "gone" THEN 0 ELSE 1

(* ------------------------------- Init --------------------------------- *)
SyncInit ==
    /\ feed \in Feeds
    /\ clock = 6
    /\ store = <<>>
    /\ remote = {}
    /\ nextId = 1
    /\ lastLog = [status |-> "", created |-> 0, updated |-> 0, deleted |-> 0,
                  errors |-> 0]
    /\ pc = "idle"
    /\ idx = 1
    /\ fetched = ""
    /\ parsedEvents = <<>>
    /\ recurringEvents = <<>>
    /\ recurringExceptions = <<>>
    /\ existingMappings = <<>>
    /\ uidToGoogleId = <<>>
    /\ created = 0
    /\ updated = 0
    /\ deleted = 0
    /\ errors = <<>>
    /\ trace = <<>>
    /\ store0 = <<>>
    /\ runs = 0
    /\ changes = 0
    /\ failures = 0
    /\ sameFeed = FALSE
    /\ prevClean = FALSE
    /\ prevParsed = NoParsed
    /\ stage = 0
    /\ lost = {}
    /\ failed = {}

\* no event object has been built
NoObjects ==
    /\ evA = <<>> /\ evB = <<>>
    /\ fpA = <<>> /\ fpB = <<>>
    /\ fields = 0

(* ------------------- the rate limiter: configuration ------------------- *)
MaxCalls == 3
MaxTicks == 4
MaxRejections == 1

maxRequestsPerSecond == 10
maxRetries == 3
baseDelay == 100
maxDelay == 5000

minInterval == 1000 \div maxRequestsPerSecond

\* the grain of the clock, and the reading when the limiter is constructed
Quantum == minInterval \div 2
InitialTime == minInterval

Callers == {"a", "b"}

\* error messages, as the strings of characters the patterns are tested on
MsgQuota == <<"Q", "u", "o", "t", "a">>
MsgRateLimit == <<"R", "A", "T", "E", " ", "L", "I", "M", "I", "T">>
MsgNotFound == <<"N", "o", "t", " ", "F", "o", "u", "n", "d">>
ErrorMessages == {MsgQuota, MsgRateLimit, MsgNotFound}

rateLimitPatterns ==
    { <<"r", "a", "t", "e", " ", "l", "i", "m", "i", "t">>,
      <<"q", "u", "o", "t", "a", " ", "e", "x", "c", "e", "e", "d", "e", "d">>,
      <<"t", "o", "o", " ", "m", "a", "n", "y", " ",
        "r", "e", "q", "u", "e", "s", "t", "s">>,
      <<"r", "a", "t", "e", " ", "l", "i", "m", "i", "t", " ",
        "e", "x", "c", "e", "e", "d", "e", "d">>,
      <<"q", "u", "o", "t", "a">> }

UpperCase == <<"A", "B", "C", "D", "E", "F", "G", "H", "I", "J", "K", "L", "M",
               "N", "O", "P", "Q", "R", "S", "T", "U", "V", "W", "X", "Y", "Z">>
LowerCase == <<"a", "b", "c", "d", "e", "f", "g", "h", "i", "j", "k", "l", "m",
               "n", "o", "p", "q", "r", "s", "t", "u", "v", "w", "x", "y", "z">>

\* the character with its case folded, as the i flag compares it
Fold(ch) ==
    IF \E i \in 1..Len(UpperCase) : UpperCase[i] = ch
    THEN LowerCase[CHOOSE i \in 1..Len(UpperCase) : UpperCase[i] = ch]
    ELSE ch

\* variant of Test: the pattern is matched with the case as written
Test_CaseSensitive(pattern, message) ==
    \E k \in 0..(Len(message) - Len(pattern)) :
        \A j \in 1..Len(pattern) : message[k + j] = pattern[j]

\* pattern.test(message) for a literal pattern with the i flag
Test(pattern, message) ==
    \E k \in 0..(Len(message) - Len(pattern)) :
        \A j \in 1..Len(pattern) : Fold(message[k + j]) = Fold(pattern[j])

isRateLimitError(errorMessage) ==
    \E pattern \in rateLimitPatterns : Test(pattern, errorMessage)

RECURSIVE Pow2(_)
Pow2(n) == IF n = 0 THEN 1 ELSE 2 * Pow2(n - 1)

Min(a, b) == IF a < b THEN a ELSE b

\* variant: the delay grows linearly with the attempt
calculateBackoffDelay_Linear(n) == Min(baseDelay * (n + 1), maxDelay)

calculateBackoffDelay(n) == Min(baseDelay * Pow2(n), maxDelay)

\* variant: one more retry than the configuration allows
MayRetry_OneMore(n) == n <= maxRetries

\* the test `attempt < this.config.maxRetries`
MayRetry(n) == n < maxRetries

\* variant: half the remaining interval is waited
PacingWait_Half(timeSinceLastRequest) ==
    (minInterval - timeSinceLastRequest) \div 2

\* waitTime of waitForRateLimit
PacingWait(timeSinceLastRequest) == minInterval - timeSinceLastRequest

NoError == [attempt |-> 0, message |-> <<>>]

\* the limiter as constructed, no call made
LimiterFresh ==
    /\ dateNow = InitialTime
    /\ lastRequestTime = 0
    /\ requestCount = 0
    /\ lpc = [c \in Callers |-> "idle"]
    /\ attempt = [c \in Callers |-> 0]
    /\ wakeAt = [c \in Callers |-> 0]
    /\ lastError = [c \in Callers |-> NoError]
    /\ thrown = [c \in Callers |-> NoError]
    /\ tried = [c \in Callers |-> <<>>]
    /\ backoffs = [c \in Callers |-> 0]
    /\ waits = [c \in Callers |-> <<>>]
    /\ prevStart = 0
    /\ lastStart = 0
    /\ calls = 0
    /\ concurrent = FALSE

\* the entry points whose handlers call syncOnce: POST /api/sync (also what
\* the scheduled job requests) and GET /api/cron
Requests == {"post", "cron"}

NoRun == [pc |-> "idle", idx |-> 1, parsed |-> NoParsed,
          existingMappings |-> <<>>, uidToGoogleId |-> <<>>,
          created |-> {}, errors |-> 0, served |-> 0]

\* no request has been received
NoRequests == req = [r \in Requests |-> NoRun]

\* nothing has been handed to the translator
NoTranslation == tr = <<>>

Init == SyncInit /\ NoObjects /\ LimiterFresh /\ NoRequests /\ NoTranslation

(* ------------------- syncOnce: fetch, parse, snapshot ------------------ *)
\* the body of syncOnce up to the first loop
BeginRun ==
    /\ pc = "idle"
    /\ store0' = store
    /\ created' = 0 /\ updated' = 0 /\ deleted' = 0
    /\ trace' = <<>>
    /\ \E o \in {"ok", "fetch_fail", "auth_fail"} :
        /\ failures + Abnormal(o) <= MaxFailures
        /\ failures' = failures + Abnormal(o)
        /\ fetched' = o
        /\ IF o = "fetch_fail"
           THEN \* fetch or parseICS throws before anything else is done
                /\ errors' = TopLevelCatch(<<>>, o)
                /\ pc' = "done" /\ idx' = 1
                /\ UNCHANGED <<clock, parsedEvents, recurringEvents,
                               recurringExceptions, existingMappings,
                               uidToGoogleId>>
           ELSE \E now \in (IF ReadsClock(feed) THEN Later(clock) ELSE {clock}) :
                LET r == fetchAndParseICSWithRecurrence(feed, now, FALSE) IN
                /\ clock' = now
                /\ parsedEvents' = r.parsedEvents
                /\ recurringEvents' = r.recurringEvents
                /\ recurringExceptions' = r.recurringExceptions
                /\ IF o = "auth_fail"
                   THEN \* getAuthenticatedCalendar or findMany throws
                        /\ errors' = TopLevelCatch(<<>>, o)
                        /\ pc' = "done" /\ idx' = 1
                        /\ UNCHANGED <<existingMappings, uidToGoogleId>>
                   ELSE /\ errors' = <<>>
                        /\ existingMappings' = store
                        /\ uidToGoogleId' =
                              [u \in Uids(store) |->
                                  store[FindIndex(store, u)].googleEventId]
                        /\ pc' = PhaseFrom(1, r.recurringEvents,
                                     r.recurringExceptions, r.parsedEvents, store)
                        /\ idx' = 1
    /\ UNCHANGED <<feed, store, remote, nextId, lastLog, changes, sameFeed,
                   prevClean, prevParsed, stage, lost, failed,
                   auxVars>>

\* a run is started, one of the runs the bound allows
StartRun ==
    /\ runs < MaxRuns
    /\ runs' = runs + 1
    /\ BeginRun

(* -------------- one loop iteration: skip, update or create ------------- *)
\* the body of the try block shared by the three create/update loops
Upsert(phase, kind, ev, fingerprint, exdates, isMaster, o) ==
    LET uid == ev.uid
        has == uid \in DOMAIN uidToGoogleId
        k == FindIndex(existingMappings, uid)
        same == has /\ k # 0 /\ existingMappings[k].fingerprint = fingerprint
        row == Row(uid, nextId, fingerprint, ev.isException, ev.originalUid,
                   ev.exceptionDate)
        j == FindIndex(store, uid)
        dbUpdate == IF o = "db_fail" \/ j = 0 THEN "fail" ELSE "ok"
        dbCreate == IF o = "db_fail" \/ j # 0 THEN "fail" ELSE "ok"
    IN
    IF same THEN
        /\ o = "ok"
        /\ trace' = Append(trace, Entry(phase, uid, "none", 0, <<>>, "none",
                                        "none", "same", errors, deleted))
        /\ UNCHANGED <<store, remote, nextId, uidToGoogleId, created, updated,
                       errors>>
    ELSE IF has THEN
        /\ o \in {"ok", "remote_fail", "db_fail"}
        /\ IF o = "remote_fail"
           THEN /\ errors' = CatchEvent(errors, kind, uid)
                /\ trace' = Append(trace, Entry(phase, uid, "update",
                               uidToGoogleId[uid], exdates, "fail", "none",
                               "", errors', deleted))
                /\ UNCHANGED <<store, updated>>
           ELSE /\ updated' = updated + 1
                /\ errors' = IF dbUpdate = "ok" THEN errors
                             ELSE CatchEvent(errors, kind, uid)
                /\ store' = IF dbUpdate = "ok"
                            THEN [store EXCEPT ![j] =
                                   IF ev.isException
                                   THEN [@ EXCEPT !.fingerprint = fingerprint,
                                            !.isException = TRUE,
                                            !.originalUid = ev.originalUid,
                                            !.exceptionDate = ev.exceptionDate]
                                   ELSE [@ EXCEPT !.fingerprint = fingerprint]]
                            ELSE store
                /\ trace' = Append(trace, Entry(phase, uid, "update",
                               uidToGoogleId[uid], exdates, "ok", dbUpdate,
                               "", errors', deleted))
        /\ UNCHANGED <<remote, nextId, uidToGoogleId, created>>
    ELSE
        /\ o \in {"ok", "remote_fail", "db_fail", "noid"}
        /\ IF o = "remote_fail"
           THEN /\ errors' = CatchEvent(errors, kind, uid)
                /\ trace' = Append(trace, Entry(phase, uid, "create", 0,
                               exdates, "fail", "none", "", errors', deleted))
                /\ UNCHANGED <<store, remote, nextId, uidToGoogleId, created>>
           ELSE IF o = "noid"
           THEN \* the insert answers without an id: nothing is recorded
                /\ trace' = Append(trace, Entry(phase, uid, "create", 0,
                               exdates, "noid", "none", "", errors, deleted))
                /\ UNCHANGED <<store, remote, nextId, uidToGoogleId, created,
                               errors>>
           ELSE /\ created' = created + 1
                /\ remote' = remote \cup {nextId}
                /\ nextId' = nextId + 1
                /\ errors' = IF dbCreate = "ok" THEN errors
                             ELSE CatchEvent(errors, kind, uid)
                /\ store' = IF dbCreate = "ok" THEN Append(store, row) ELSE store
                /\ uidToGoogleId' = IF isMaster /\ dbCreate = "ok"
                                    THEN MapSet(uidToGoogleId, uid, nextId)
                                    ELSE uidToGoogleId
                /\ trace' = Append(trace, Entry(phase, uid, "create", nextId,
                               exdates, "ok", dbCreate, "", errors', deleted))
        /\ UNCHANGED updated

Spend(o) ==
    /\ failures + Abnormal(o) <= MaxFailures
    /\ failures' = failures + Abnormal(o)

Outcomes == {"ok", "remote_fail", "db_fail", "noid", "gone", "gone_db_fail"}

StepFrame == UNCHANGED <<feed, clock, lastLog, fetched, parsedEvents, recurringEvents,
                         recurringExceptions, existingMappings, store0, runs,
                         changes, sameFeed, prevClean, prevParsed, stage, lost,
                         failed, auxVars>>

(* --------------------------- the translator --------------------------- *)
(* An instant is a whole number of hours since 00:00 UTC of day 0; the     *)
(* process zone is the number of hours its local time is ahead of UTC. An  *)
(* optional property is a sequence of length 0 or 1.                        *)
TranslatorEvent(summary, start, end, allDay, transparency) ==
    [summary |-> summary, start |-> start, end |-> end, allDay |-> allDay,
     transparency |-> transparency]

\* rrule.toString() of rules that end at 02:00 wall-clock time of a given day
WeeklyEasternUntil ==
    "DTSTART;TZID=Eastern Standard Time:20250107T100000\nRRULE:FREQ=WEEKLY;UNTIL=20250301T020000"
WeeklyUntilZ == "RRULE:FREQ=WEEKLY;UNTIL=20250301T020000Z"
WeeklyUntil == "RRULE:FREQ=WEEKLY;UNTIL=20250301T020000"

\* rrule.match(/TZID=([^:\n;]+)/), tabulated for the rules above and of the
\* feed; /DTSTART;TZID=([^:;]+):/ matches the same rules and the same text
TzidMatch(rrule) ==
    IF rrule \in {WeeklyEastern, WeeklyEasternUntil}
    THEN "Eastern Standard Time" ELSE Undefined

\* rrule.match(/FREQ=([A-Z]+)/)
FreqMatch(rrule) == IF rrule = "" THEN Undefined ELSE "WEEKLY"

\* rrule.match(/BYDAY=([A-Z,]+)/)
BydayMatch(rrule) ==
    IF rrule \in {Weekly, WeeklyEastern} THEN "TU" ELSE Undefined

\* rrule.match(/UNTIL=(\d{8}T\d{6}Z?)/): the wall-clock time the digits give,
\* in hours since 00:00 of 2025-03-01, and whether a Z follows
UntilMatch(rrule) ==
    IF rrule \in {WeeklyEasternUntil, WeeklyUntil}
    THEN <<[wall |-> 2, z |-> FALSE]>>
    ELSE IF rrule = WeeklyUntilZ THEN <<[wall |-> 2, z |-> TRUE]>>
    ELSE <<>>

normalizeTimezone(timezone) ==
    CASE timezone \in {"GMT Standard Time", "GMT Daylight Time", "GMT"}
            -> "Europe/London"
      [] timezone = "UTC" -> "UTC"
      [] timezone \in {"Eastern Standard Time", "Eastern Daylight Time"}
            -> "America/New_York"
      [] timezone \in {"Central Standard Time", "Central Daylight Time"}
            -> "America/Chicago"
      [] timezone \in {"Mountain Standard Time", "Mountain Daylight Time"}
            -> "America/Denver"
      [] timezone \in {"Pacific Standard Time", "Pacific Daylight Time"}
            -> "America/Los_Angeles"
      [] timezone \in {"Central European Time", "Central European Summer Time",
                       "CET", "CEST"}
            -> "Europe/Paris"
      [] OTHER -> timezone

\* getUTCHours() and getHours(); toISOString().split('T')[0]
UTCHours(t) == t % 24
LocalHours(t, zone) == (t + zone) % 24
UTCDate(t) == t \div 24

\* summary.toLowerCase().includes(phrase), tabulated
IncludesPhrase(summary, phrase) ==
    <<summary, phrase>> \in {<<"Office day", "office day">>}

\* variant: any positive whole number of 24-hour periods is all-day
isAllDayEvent_AnyFullDays(vevent, zone) ==
    LET durationHours == vevent.end - vevent.start IN
    \/ vevent.allDay
    \/ durationHours = 23 /\ UTCHours(vevent.start) = 0
    \/ durationHours = 23 /\ LocalHours(vevent.start, zone) = 0
    \/ durationHours > 0 /\ durationHours % 24 = 0
    \/ IncludesPhrase(vevent.summary, "office day") /\ durationHours = 23
    \/ IncludesPhrase(vevent.summary, "away day") /\ durationHours >= 23

isAllDayEvent(vevent, zone) ==
    LET durationHours == vevent.end - vevent.start
        startAtMidnightUTC == UTCHours(vevent.start) = 0
        endAt23UTC == UTCHours(vevent.end) = 23
        startAtMidnight == LocalHours(vevent.start, zone) = 0
        isFullDays == durationHours > 0 /\ durationHours % 24 = 0
        endAtMidnightUTC == UTCHours(vevent.end) = 0
        endAtMidnight == LocalHours(vevent.end, zone) = 0
    IN \/ vevent.allDay
       \/ durationHours = 23 /\ startAtMidnightUTC /\ endAt23UTC
       \/ durationHours = 23 /\ startAtMidnight
       \/ /\ isFullDays
          /\ \/ startAtMidnight /\ endAtMidnight
             \/ startAtMidnightUTC /\ endAtMidnightUTC
       \/ IncludesPhrase(vevent.summary, "office day") /\ durationHours = 23
       \/ IncludesPhrase(vevent.summary, "away day") /\ durationHours >= 23

\* the local wall-clock time of the instant and the offset written after it
formatLocalDateTime(date, zone) == [local |-> date + zone, offset |-> zone]

DateOnly(day) == [date |-> <<day>>, dateTime |-> <<>>, timeZone |-> Undefined]
DateTime(text) == [date |-> <<>>, dateTime |-> <<text>>, timeZone |-> Undefined]

\* endDate.setDate(endDate.getDate() + 1), no clock change in between
AllDayEnd(end) == end + 24

createGoogleEventBody(vevent, zone) ==
    LET isAllDay == isAllDayEvent(vevent, zone) IN
    [summary |-> vevent.summary,
     transparency |-> IF vevent.transparency = "TRANSPARENT"
                      THEN "transparent" ELSE "opaque",
     start |-> IF isAllDay THEN DateOnly(UTCDate(vevent.start))
               ELSE DateTime(formatLocalDateTime(vevent.start, zone)),
     end |-> IF isAllDay THEN DateOnly(UTCDate(AllDayEnd(vevent.end)))
             ELSE DateTime(formatLocalDateTime(vevent.end, zone)),
     recurrence |-> <<>>]

\* the UNTIL of the rule as it is written into the Google rule
ConvertUntil(until, timezone, zone) ==
    IF until.z THEN until
    ELSE LET localDate == until.wall - zone IN
         IF timezone # "UTC"
         THEN \* localDate.getTime() - localDate.getTimezoneOffset() * 60000,
              \* then the UTC digits of toISOString()
              [wall |-> localDate + zone, z |-> TRUE]
         ELSE [wall |-> until.wall, z |-> TRUE]

convertRRULEToGoogleRecurrence(rrule, zone) ==
    LET timezone == IF TzidMatch(rrule) # Undefined
                    THEN normalizeTimezone(TzidMatch(rrule)) ELSE "UTC"
    IN IF FreqMatch(rrule) \notin {"DAILY", "WEEKLY", "MONTHLY", "YEARLY"}
       THEN <<>>
       ELSE <<[freq |-> FreqMatch(rrule), byday |-> BydayMatch(rrule),
               until |-> [i \in 1..Len(UntilMatch(rrule)) |->
                            ConvertUntil(UntilMatch(rrule)[i], timezone, zone)]]>>

\* the zone is added to a timed start or end that has none
WithTimeZone(time, timezone) ==
    IF time.dateTime # <<>> /\ time.timeZone = Undefined
    THEN [time EXCEPT !.timeZone = timezone] ELSE time

createGoogleRecurringEventBody(vevent, rrule, zone) ==
    LET eventBody == createGoogleEventBody(vevent, zone)
        timezone == IF TzidMatch(rrule) # Undefined
                    THEN normalizeTimezone(TzidMatch(rrule))
                    ELSE "Europe/London"
    IN [eventBody EXCEPT
           !.recurrence = convertRRULEToGoogleRecurrence(rrule, zone),
           !.start = WithTimeZone(@, timezone),
           !.end = WithTimeZone(@, timezone)]

\* an event of the feed as the translator sees it: timed, one hour long
Timed(vevent) ==
    TranslatorEvent(vevent.summary, 34, 35, FALSE, vevent.transparency)

(* ------------------------- the masters phase --------------------------- *)
RelatedExceptions(exceptions, uid) ==
    SelectSeq(exceptions, LAMBDA ex : <<ex.originalUid>> = uid)

\* variant: only the first related exception is excluded
ExdateLines_First(relatedExceptions) ==
    [i \in 1..(IF relatedExceptions = <<>> THEN 0 ELSE 1) |->
        [tzid |-> "Europe/London", local |-> relatedExceptions[i].exceptionDate]]

\* one EXDATE line per related exception, in the zone the code hard-wires
ExdateLines(relatedExceptions) ==
    [i \in 1..Len(relatedExceptions) |->
        [tzid |-> "Europe/London", local |-> relatedExceptions[i].exceptionDate]]

MasterStep ==
    /\ pc = "masters"
    /\ LET recurringEvent == recurringEvents[idx]
           relatedExceptions ==
               RelatedExceptions(recurringExceptions, recurringEvent.uid)
           enhancedFingerprint ==
               createMasterEventFingerprint(recurringEvent, relatedExceptions)
       IN \E o \in Outcomes :
            /\ Spend(o)
            /\ Upsert("masters", "recurring event", recurringEvent,
                      enhancedFingerprint, ExdateLines(relatedExceptions),
                      TRUE, o)
    /\ deleted' = deleted
    /\ Advance
    /\ StepFrame

(* ------------------------ the exceptions phase ------------------------- *)
\* variant: the lookup of the master's id is not tested
MasterResolved_Always(map, originalUid) == TRUE

MasterResolved(map, originalUid) == <<originalUid>> \in DOMAIN map

ExceptionStep ==
    /\ pc = "exceptions"
    /\ LET exception == recurringExceptions[idx] IN
       IF ~MasterResolved(uidToGoogleId, exception.originalUid)
       THEN \* console.warn and continue
            /\ errors' = MissingMaster(errors, exception.uid)
            /\ trace' = Append(trace, Entry("exceptions", exception.uid, "none",
                            0, <<>>, "none", "none", "nomaster", errors',
                            deleted))
            /\ UNCHANGED <<store, remote, nextId, uidToGoogleId, created,
                           updated, failures>>
       ELSE \E o \in Outcomes :
            /\ Spend(o)
            /\ Upsert("exceptions", "exception event", exception,
                      exception.fingerprint, <<>>, FALSE, o)
    /\ deleted' = deleted
    /\ Advance
    /\ StepFrame

(* -------------------------- the singles phase -------------------------- *)
SingleStep ==
    /\ pc = "singles"
    /\ LET parsedEvent == parsedEvents[idx] IN
       IF parsedEvent.uid \in Uids(recurringEvents)
          \/ parsedEvent.uid \in Uids(recurringExceptions)
       THEN /\ trace' = Append(trace, Entry("singles", parsedEvent.uid, "none",
                            0, <<>>, "none", "none", "handled", errors, deleted))
            /\ UNCHANGED <<store, remote, nextId, uidToGoogleId, created,
                           updated, errors, failures>>
       ELSE \E o \in Outcomes :
            /\ Spend(o)
            /\ Upsert("singles", "event", parsedEvent, parsedEvent.fingerprint,
                      <<>>, FALSE, o)
    /\ deleted' = deleted
    /\ Advance
    /\ StepFrame

(* -------------------------- the deletion phase ------------------------- *)
\* variant: the exception uids are not consulted
StaleMapping_NoExceptions(uid, currentUIDs, recurringUIDs, exceptionUIDs) ==
    uid \notin currentUIDs /\ uid \notin recurringUIDs

\* variant: the uids of the masters are not consulted
StaleMapping_NoRecurring(uid, currentUIDs, recurringUIDs, exceptionUIDs) ==
    uid \notin currentUIDs /\ uid \notin exceptionUIDs

StaleMapping(uid, currentUIDs, recurringUIDs, exceptionUIDs) ==
    uid \notin currentUIDs /\ uid \notin recurringUIDs /\ uid \notin exceptionUIDs

\* variant: no delete error is recognised as "already deleted"
IsAlreadyDeleted_Never(res) == FALSE

\* errorMessage.includes('Resource has been deleted')
IsAlreadyDeleted(res) == res = "gone"

DeleteStep ==
    /\ pc = "deletion"
    /\ LET mapping == existingMappings[idx]
           uid == mapping.uid
           j == FindIndex(store, uid)
       IN
       IF ~StaleMapping(uid, Uids(parsedEvents), Uids(recurringEvents),
                        Uids(recurringExceptions))
       THEN /\ trace' = Append(trace, Entry("deletion", uid, "none", 0, <<>>,
                            "none", "none", "keep", errors, deleted))
            /\ UNCHANGED <<store, remote, deleted, errors, failures>>
       ELSE \E o \in {"ok", "remote_fail", "db_fail", "gone", "gone_db_fail"} :
            LET res == CASE o \in {"ok", "db_fail"} -> "ok"
                         [] o \in {"gone", "gone_db_fail"} -> "gone"
                         [] OTHER -> "fail"
                db == IF o \in {"db_fail", "gone_db_fail"} \/ j = 0
                      THEN "fail" ELSE "ok"
            IN
            /\ Spend(o)
            /\ IF res = "ok"
               THEN \* deleted++ precedes the database delete
                    /\ deleted' = deleted + 1
                    /\ remote' = remote \ {mapping.googleEventId}
                    /\ store' = IF db = "ok" THEN RemoveUid(store, uid) ELSE store
                    /\ errors' = IF db = "ok" THEN errors
                                 ELSE CatchEvent(errors, "deleting event", uid)
                    /\ trace' = Append(trace, Entry("deletion", uid, "delete",
                                   mapping.googleEventId, <<>>, "ok", db, "",
                                   errors', deleted'))
               ELSE IF IsAlreadyDeleted(res)
               THEN /\ remote' = remote \ {mapping.googleEventId}
                    /\ deleted' = IF db = "ok" THEN deleted + 1 ELSE deleted
                    /\ store' = IF db = "ok" THEN RemoveUid(store, uid) ELSE store
                    /\ errors' = IF db = "ok" THEN errors
                                 ELSE CatchEvent(errors,
                                          "cleaning up database record", uid)
                    /\ trace' = Append(trace, Entry("deletion", uid, "delete",
                                   mapping.googleEventId, <<>>, "gone", db, "",
                                   errors', deleted'))
               ELSE /\ errors' = CatchEvent(errors, "deleting event", uid)
                    /\ trace' = Append(trace, Entry("deletion", uid, "delete",
                                   mapping.googleEventId, <<>>, res, "none", "",
                                   errors', deleted))
                    /\ UNCHANGED <<store, remote, deleted>>
    /\ UNCHANGED <<nextId, uidToGoogleId, created, updated>>
    /\ Advance
    /\ StepFrame

(* ------------------- syncOnce: log the run and return ------------------ *)
Status(errs, c, u, d) ==
    IF Len(errs) = 0 THEN "SUCCESS"
    ELSE IF Len(errs) < c + u + d THEN "PARTIAL" ELSE "ERROR"

\* the run met no failure: every call and every write it made succeeded
Clean ==
    /\ errors = <<>>
    /\ \A i \in 1..Len(trace) :
          trace[i].res \in {"ok", "none"} /\ trace[i].db \in {"ok", "none"}

CurrentParsed == [parsedEvents |-> parsedEvents,
                  recurringEvents |-> recurringEvents,
                  recurringExceptions |-> recurringExceptions]

\* one weekly master with one override whose occurrence reference is well formed
ScenarioFeed(f) ==
    /\ ~f["v"].present
    /\ f["u"].present /\ IsMasterEntry(f["u"]) /\ f["u"].rrule = Weekly
    /\ Len(f["u"].recurrences) = 1
    /\ f["u"].recurrences[1].recurrenceid \in {"D1", "D2"}

\* two resolved masters equal in uid, own tracked fields and rule
SameMaster(a, b) ==
    a.uid = b.uid /\ a.fingerprint = b.fingerprint /\ a.rrule = b.rrule

\* since the previous run only the summary of the one exception changed
OnlyExceptionTitleChanged ==
    /\ ~sameFeed
    /\ Len(prevParsed.recurringEvents) = 1 /\ Len(recurringEvents) = 1
    /\ SameMaster(prevParsed.recurringEvents[1], recurringEvents[1])
    /\ Len(prevParsed.recurringExceptions) = 1 /\ Len(recurringExceptions) = 1
    /\ prevParsed.recurringExceptions[1].uid = recurringExceptions[1].uid
    /\ prevParsed.recurringExceptions[1].exceptionDate
          = recurringExceptions[1].exceptionDate
    /\ prevParsed.recurringExceptions[1].vevent.summary
          # recurringExceptions[1].vevent.summary

\* the creates of the run that succeeded remotely and whose row was not stored
LostCreates ==
    {<<trace[i].uid, trace[i].id>> :
        i \in {k \in 1..Len(trace) : /\ trace[k].op = "create"
                                     /\ trace[k].res = "ok"
                                     /\ trace[k].db = "fail"}}

\* the remote calls of the run that threw: the identity and the operation
FailedCalls ==
    {<<trace[i].uid, trace[i].op>> :
        i \in {k \in 1..Len(trace) : trace[k].op # "none" /\ trace[k].res = "fail"}}

NextStage ==
    IF ~Clean \/ ~ScenarioFeed(feed) THEN 0
    ELSE IF stage = 0 /\ store0 = <<>> THEN 1
    ELSE IF stage = 1 /\ sameFeed THEN 2
    ELSE IF stage = 2 /\ OnlyExceptionTitleChanged THEN 3
    ELSE 0

FinishRun ==
    /\ pc = "done"
    /\ lastLog' = [status |-> Status(errors, created, updated, deleted),
                   created |-> created, updated |-> updated,
                   deleted |-> deleted, errors |-> Len(errors)]
    /\ prevClean' = Clean
    /\ prevParsed' = CurrentParsed
    /\ stage' = NextStage
    /\ lost' = LostCreates
    /\ failed' = FailedCalls
    /\ sameFeed' = TRUE
    /\ pc' = "idle" /\ idx' = 1 /\ fetched' = ""
    /\ parsedEvents' = <<>> /\ recurringEvents' = <<>>
    /\ recurringExceptions' = <<>> /\ existingMappings' = <<>>
    /\ uidToGoogleId' = <<>>
    /\ created' = 0 /\ updated' = 0 /\ deleted' = 0
    /\ errors' = <<>> /\ trace' = <<>> /\ store0' = <<>>
    /\ UNCHANGED <<feed, clock, store, remote, nextId, runs, changes, failures,
                   auxVars>>

(* ------------------- the publisher changes the feed -------------------- *)
FeedChange ==
    /\ pc = "idle"
    /\ runs >= 1
    /\ changes < MaxFeedChanges
    /\ changes' = changes + 1
    /\ \E f \in Feeds \ {feed} : feed' = f
    /\ sameFeed' = FALSE
    /\ UNCHANGED <<clock, store, remote, nextId, lastLog, runVars, runs,
                   failures, prevClean, prevParsed, stage, lost, failed,
                   auxVars>>

Next ==
    \/ StartRun
    \/ MasterStep
    \/ ExceptionStep
    \/ SingleStep
    \/ DeleteStep
    \/ FinishRun
    \/ FeedChange

Spec == Init /\ [][Next]_vars

(* ======================= properties of the run ======================== *)
Aborted == fetched \in {"fetch_fail", "auth_fail"}
Finished == pc = "done" /\ fetched = "ok"

IsCall(e) == e.op # "none"
Calls == SelectSeq(trace, IsCall)
Failing(e) == e.res = "fail" \/ e.db = "fail"

CountCalls(uid, op) ==
    Cardinality({i \in 1..Len(trace) : trace[i].uid = uid /\ trace[i].op = op})

ErrorsBefore(i) == IF i = 1 THEN 0 ELSE trace[i - 1].nerr
DeletedBefore(i) == IF i = 1 THEN 0 ELSE trace[i - 1].ndel

\* the uids the run computed from the feed
FeedUids == Uids(parsedEvents) \cup Uids(recurringEvents)
            \cup Uids(recurringExceptions)

(* C1: a run on the feed of the previous run, which met no failure and    *)
(* recorded no error, makes no remote create, update or delete.           *)
C1_Idempotent ==
    (pc = "done" /\ runs >= 2 /\ sameFeed /\ prevClean) => Calls = <<>>

(* C2: of the mappings in the snapshot, exactly those whose uid is in     *)
(* none of the run's three lists get a remote delete, on success their    *)
(* row is removed; the others get no delete and keep their row.           *)
C2_DeletionSafety ==
    \A k \in 1..Len(existingMappings) :
        LET m == existingMappings[k]
            dels == {i \in 1..Len(trace) :
                        trace[i].op = "delete" /\ trace[i].uid = m.uid}
        IN IF m.uid \in FeedUids
           THEN dels = {} /\ m.uid \in Uids(store)
           ELSE Finished =>
                  /\ Cardinality(dels) = 1
                  /\ \A i \in dels :
                        /\ trace[i].id = m.googleEventId
                        /\ (trace[i].res \in {"ok", "gone"} /\ trace[i].db = "ok")
                              => m.uid \notin Uids(store)

C2_Witness ==
    /\ Finished
    /\ \E k \in 1..Len(existingMappings) :
          /\ existingMappings[k].uid \notin FeedUids
          /\ existingMappings[k].uid \notin Uids(store)
    /\ \E k \in 1..Len(existingMappings) :
          /\ existingMappings[k].uid \in Uids(recurringExceptions)
          /\ existingMappings[k].uid \notin Uids(parsedEvents)
                                          \cup Uids(recurringEvents)

\* the fingerprint the run compares for an event (the composite for a master)
CurrentFingerprint(ev) ==
    IF \E i \in 1..Len(recurringEvents) : recurringEvents[i] = ev
    THEN createMasterEventFingerprint(ev,
             RelatedExceptions(recurringExceptions, ev.uid))
    ELSE ev.fingerprint

\* the master of an exception is known: mapped in the snapshot, or created
\* and stored earlier in this run
Resolvable(originalUid) ==
    \/ <<originalUid>> \in Uids(existingMappings)
    \/ \E i \in 1..Len(trace) :
          /\ trace[i].phase = "masters" /\ trace[i].uid = <<originalUid>>
          /\ trace[i].op = "create" /\ trace[i].res = "ok" /\ trace[i].db = "ok"

OneCallFor(ev) ==
    LET k == FindIndex(existingMappings, ev.uid)
        creates == CountCalls(ev.uid, "create")
        updates == CountCalls(ev.uid, "update")
    IN IF k = 0 THEN creates = 1 /\ updates = 0
       ELSE IF existingMappings[k].fingerprint = CurrentFingerprint(ev)
       THEN creates = 0 /\ updates = 0
       ELSE /\ creates = 0 /\ updates = 1
            /\ \A i \in 1..Len(trace) :
                  (trace[i].uid = ev.uid /\ trace[i].op = "update")
                     => trace[i].id = existingMappings[k].googleEventId

(* C3: per identity of the feed (an exception only when its master is     *)
(* resolvable): unmapped gives exactly one create and no update, mapped    *)
(* and unchanged gives no call, mapped and changed gives exactly one       *)
(* update of the recorded remote id and no create.                         *)
C3_OneCallPerIdentity ==
    Finished =>
        /\ \A i \in 1..Len(recurringEvents) : OneCallFor(recurringEvents[i])
        /\ \A i \in 1..Len(parsedEvents) : OneCallFor(parsedEvents[i])
        /\ \A i \in 1..Len(recurringExceptions) :
              Resolvable(recurringExceptions[i].originalUid)
                 => OneCallFor(recurringExceptions[i])

(* C4: in the order of the run's remote calls no master create or update  *)
(* follows a call for an exception, and no create or update follows a      *)
(* delete.                                                                 *)
C4_PhaseOrder ==
    \A i, j \in 1..Len(trace) :
        i < j =>
          /\ ~(/\ trace[i].phase = "exceptions" /\ IsCall(trace[i])
               /\ trace[j].phase = "masters" /\ IsCall(trace[j]))
          /\ ~(trace[i].op = "delete" /\ trace[j].op \in {"create", "update"})

C4_Witness ==
    /\ Finished
    /\ \E i, j, k \in 1..Len(trace) :
          /\ trace[i].phase = "masters" /\ IsCall(trace[i])
          /\ trace[j].phase = "exceptions" /\ IsCall(trace[j])
          /\ trace[k].op = "delete"

\* the uids of the events the loops of a run visit, in order
ExpectedVisits ==
    [i \in 1..Len(recurringEvents) |-> recurringEvents[i].uid]
    \o [i \in 1..Len(recurringExceptions) |-> recurringExceptions[i].uid]
    \o [i \in 1..Len(parsedEvents) |-> parsedEvents[i].uid]
    \o [i \in 1..Len(existingMappings) |-> existingMappings[i].uid]

ExceptionAt(i) == recurringExceptions[i - Len(recurringEvents)]

Unresolved(i) ==
    /\ trace[i].phase = "exceptions"
    /\ <<ExceptionAt(i).originalUid>> \notin Uids(existingMappings)
    /\ ~\E j \in 1..(i - 1) :
          /\ trace[j].phase = "masters"
          /\ trace[j].uid = <<ExceptionAt(i).originalUid>>
          /\ trace[j].op = "create" /\ trace[j].res = "ok" /\ trace[j].db = "ok"

AlreadyDeleted(i) == trace[i].op = "delete" /\ trace[i].res = "gone"

(* C7 as stated: a delete answered "already deleted" removes the mapping,  *)
(* counts one delete and appends no error.                                  *)
C7_GoneIsSuccess ==
    \A i \in 1..Len(trace) :
        AlreadyDeleted(i) =>
            /\ trace[i].uid \notin Uids(store)
            /\ trace[i].ndel = DeletedBefore(i) + 1
            /\ trace[i].nerr = ErrorsBefore(i)

(* C7 amended: a delete answered "already deleted" is followed by the      *)
(* store delete; it removes the mapping, counts one delete and appends no   *)
(* error when the store delete succeeds;                                    *)
(* when the store delete fails the row stays, the count does not change    *)
(* and one error naming the mapping is appended.                            *)
C7_GoneThenStore ==
    \A i \in 1..Len(trace) :
        AlreadyDeleted(i) =>
            /\ trace[i].db \in {"ok", "fail"}
            /\ IF trace[i].db = "ok"
               THEN
                 /\ trace[i].uid \notin Uids(store)
                 /\ trace[i].ndel = DeletedBefore(i) + 1
                 /\ trace[i].nerr = ErrorsBefore(i)
               ELSE
                 /\ trace[i].uid \in Uids(store)
                 /\ trace[i].ndel = DeletedBefore(i)
                 /\ trace[i].nerr = ErrorsBefore(i) + 1
                 /\ errors[trace[i].nerr].uid = trace[i].uid

C7_Witness ==
    /\ Finished
    /\ \E i \in 1..Len(trace) : AlreadyDeleted(i) /\ trace[i].db = "ok"
    /\ deleted >= 1 /\ errors = <<>>

(* C8: when fetching or parsing the feed fails the run makes no remote     *)
(* call, leaves the mapping store as it was, and ends with all three        *)
(* counts zero and the failure as the only error.                           *)
C8_FetchFailure ==
    (pc = "done" /\ fetched = "fetch_fail") =>
        /\ trace = <<>>
        /\ store = store0
        /\ created = 0 /\ updated = 0 /\ deleted = 0
        /\ errors = <<ErrorMessage("Sync failed", <<"fetch_fail">>)>>

C8_Witness == pc = "done" /\ fetched = "fetch_fail" /\ store0 # <<>>

(* C9: one weekly master with one exception, empty store, no failure: the  *)
(* first run creates the master with one exclusion line and then the        *)
(* exception, the second run on the same feed makes no call, the third run  *)
(* after only the exception's title changed makes exactly two updates, of   *)
(* the master and of the exception.                                         *)
C9_Scenario ==
    (pc = "done" /\ Clean /\ fetched = "ok" /\ ScenarioFeed(feed)) =>
        /\ (stage = 0 /\ store0 = <<>>) =>
              /\ Len(Calls) = 2
              /\ Calls[1].op = "create" /\ Calls[1].phase = "masters"
              /\ Len(Calls[1].exdates) = 1
              /\ Calls[2].op = "create" /\ Calls[2].phase = "exceptions"
        /\ (stage = 1 /\ sameFeed) => Calls = <<>>
        /\ (stage = 2 /\ OnlyExceptionTitleChanged) =>
              /\ Len(Calls) = 2
              /\ \A i \in 1..2 : Calls[i].op = "update"
              /\ {Calls[1].phase, Calls[2].phase} = {"masters", "exceptions"}

C9_Witness ==
    /\ pc = "done" /\ Clean /\ fetched = "ok" /\ ScenarioFeed(feed)
    /\ stage = 2 /\ OnlyExceptionTitleChanged

Count(seq, x) == Cardinality({i \in 1..Len(seq) : seq[i] = x})

SameExceptions(a, b) ==
    /\ Len(a) = Len(b)
    /\ \A i \in 1..Len(a) : Count(a, a[i]) = Count(b, a[i])

\* a master of this run and of the previous one, equal in its own fields and
\* rule, whose linked exceptions differ by an addition, removal or change
ExceptionsChanged(i, j) ==
    /\ SameMaster(recurringEvents[i], prevParsed.recurringEvents[j])
    /\ ~SameExceptions(
          RelatedExceptions(recurringExceptions, recurringEvents[i].uid),
          RelatedExceptions(prevParsed.recurringExceptions,
                            recurringEvents[i].uid))

(* C10: with the master's own fields and rule unchanged, adding, removing  *)
(* or changing a linked exception changes the composite fingerprint.        *)
C10_CompositeChanges ==
    \A i \in 1..Len(recurringEvents) :
      \A j \in 1..Len(prevParsed.recurringEvents) :
        ExceptionsChanged(i, j) =>
            createMasterEventFingerprint(recurringEvents[i],
                RelatedExceptions(recurringExceptions, recurringEvents[i].uid))
            # createMasterEventFingerprint(prevParsed.recurringEvents[j],
                RelatedExceptions(prevParsed.recurringExceptions,
                                  recurringEvents[i].uid))

\* an exception was modified in place, with no clock reading involved
C10_Witness ==
    \E i \in 1..Len(recurringEvents) :
      \E j \in 1..Len(prevParsed.recurringEvents) :
        /\ ExceptionsChanged(i, j)
        /\ ~ReadsClock(feed)
        /\ [k \in 1..Len(recurringExceptions) |-> recurringExceptions[k].uid]
             = [k \in 1..Len(prevParsed.recurringExceptions) |->
                   prevParsed.recurringExceptions[k].uid]

(* ================== properties of resolver and request ================= *)
\* the composite fingerprint the run computes for its i-th master
CompositeOf(parsed, i) ==
    createMasterEventFingerprint(parsed.recurringEvents[i],
        RelatedExceptions(parsed.recurringExceptions,
                          parsed.recurringEvents[i].uid))

(* C11: a master of this run and of the previous run, equal in its own     *)
(* fields and rule and linked to the same exceptions, whatever their order  *)
(* in the feed, has the same composite fingerprint in both runs.            *)
C11_OrderIndependent ==
    \A i \in 1..Len(recurringEvents) :
      \A j \in 1..Len(prevParsed.recurringEvents) :
        (/\ SameMaster(recurringEvents[i], prevParsed.recurringEvents[j])
         /\ SameExceptions(
               RelatedExceptions(recurringExceptions, recurringEvents[i].uid),
               RelatedExceptions(prevParsed.recurringExceptions,
                                 recurringEvents[i].uid)))
            => CompositeOf(CurrentParsed, i) = CompositeOf(prevParsed, j)

(* C12: every exclusion-date line of a remote create or update of a master *)
(* carries the time zone the request gives for the master's start.          *)
C12_ExdateZone ==
    \A i \in 1..Len(trace) :
        (trace[i].phase = "masters" /\ trace[i].op \in {"create", "update"}) =>
            \A l \in 1..Len(trace[i].exdates) :
                trace[i].exdates[l].tzid =
                    createGoogleRecurringEventBody(
                        Timed(recurringEvents[i].vevent),
                        recurringEvents[i].rrule, 0).start.timeZone

\* the events the resolver returned to the run, of all three lists
Resolved == parsedEvents \o recurringEvents \o recurringExceptions

(* C13: no entry the exclusion filter rejects is in the singles, masters   *)
(* or exceptions the resolver returned, top-level or nested in a master.    *)
C13_NoFilteredOutput ==
    \A i \in 1..Len(Resolved) : ~shouldSkipEvent(Resolved[i].vevent)

\* the identities of the feed entries marked free
TransparentUids ==
    {<<k>> : k \in {u \in DOMAIN feed :
                      feed[u].present /\ feed[u].transparency = "TRANSPARENT"}}

(* C14: an entry marked free/transparent is in none of the resolver's      *)
(* lists, and no remote create or update is made for it.                    *)
C14_TransparentFiltered ==
    fetched = "ok" =>
        /\ \A i \in 1..Len(Resolved) :
              Resolved[i].vevent.transparency # "TRANSPARENT"
        /\ \A k \in 1..Len(trace) :
              trace[k].uid \in TransparentUids
                  => trace[k].op \notin {"create", "update"}

(* C15: resolving the unchanged feed in a later run gives the exceptions   *)
(* the identities the previous run gave them.                               *)
C15_StableIdentity ==
    (fetched = "ok" /\ runs >= 2 /\ sameFeed /\ prevClean) =>
        [k \in 1..Len(recurringExceptions) |-> recurringExceptions[k].uid]
          = [k \in 1..Len(prevParsed.recurringExceptions) |->
                prevParsed.recurringExceptions[k].uid]

(* =================== createEventFingerprint on objects ================= *)
(* An event object is the list of its properties in the order they were    *)
(* set. Two objects are built side by side; a property set on both is      *)
(* appended to the one and put in front in the other, so that the two       *)
(* differ in insertion order.                                               *)
EmptyFeed == [k \in {"u", "v"} |-> NoEntry]

\* the properties of a VEvent the fingerprint reads
TrackedProps == {"uid", "summary", "location", "description", "start", "end",
                 "transparency", "status", "sequence", "lastmodified"}

\* a property the fingerprint does not read
UntrackedProps == {"organizer"}

PropValues == {"x", "y"}

Keys(obj) == {obj[i][1] : i \in 1..Len(obj)}

\* obj[key]
Get(obj, key) ==
    IF key \in Keys(obj)
    THEN obj[CHOOSE i \in 1..Len(obj) : obj[i][1] = key][2]
    ELSE Undefined

\* the object as createEventFingerprint reads it, property by property
AsVEvent(obj) ==
    [present |-> TRUE, uid |-> Get(obj, "uid"), summary |-> Get(obj, "summary"),
     start |-> Get(obj, "start"), rrule |-> "", recurrenceid |-> "",
     recurrences |-> <<>>, location |-> Get(obj, "location"),
     description |-> Get(obj, "description"), end |-> Get(obj, "end"),
     transparency |-> Get(obj, "transparency"), status |-> Get(obj, "status"),
     sequence |-> Get(obj, "sequence"),
     lastmodified |-> Get(obj, "lastmodified"),
     organizer |-> Get(obj, "organizer")]

InitObjects ==
    /\ SyncInit /\ feed = EmptyFeed
    /\ \E ua \in {"", "u"} :
          /\ evA = << <<"uid", ua>> >>
          /\ evB = << <<"uid", "u">> >>
    /\ fpA = createEventFingerprint(AsVEvent(evA))
    /\ fpB = createEventFingerprint(AsVEvent(evB))
    /\ fields = 0
    /\ LimiterFresh
    /\ NoRequests
    /\ NoTranslation

Fingerprinted ==
    /\ fpA' = createEventFingerprint(AsVEvent(evA'))
    /\ fpB' = createEventFingerprint(AsVEvent(evB'))
    /\ fields' = fields + 1
    /\ UNCHANGED <<syncVars, limiterVars, entryVars, translatorVars>>

\* the same property, with the same value, set on both objects
SetBoth ==
    /\ fields < MaxFields
    /\ \E k \in (TrackedProps \cup UntrackedProps) \ (Keys(evA) \cup Keys(evB)) :
          /\ evA' = Append(evA, <<k, "x">>)
          /\ evB' = << <<k, "x">> >> \o evB
    /\ Fingerprinted

\* a property set on the first object only
SetA ==
    /\ fields < MaxFields
    /\ \E k \in (TrackedProps \cup UntrackedProps) \ Keys(evA) :
        \E v \in PropValues :
          /\ evA' = Append(evA, <<k, v>>)
          /\ evB' = evB
    /\ Fingerprinted

\* a property set on the second object only
SetB ==
    /\ fields < MaxFields
    /\ \E k \in (TrackedProps \cup UntrackedProps) \ Keys(evB) :
          /\ evB' = << <<k, "x">> >> \o evB
          /\ evA' = evA
    /\ Fingerprinted

NextObjects == SetBoth \/ SetA \/ SetB

SpecObjects == InitObjects /\ [][NextObjects]_vars

SameTracked(a, b) == \A k \in TrackedProps : Get(a, k) = Get(b, k)

InitLimiter ==
    /\ SyncInit /\ feed = EmptyFeed
    /\ NoObjects
    /\ LimiterFresh
    /\ NoRequests
    /\ NoTranslation

Active(c) == lpc[c] \in {"delay", "operation", "backoff"}
Sleeping(c) == lpc[c] \in {"delay", "backoff"} /\ wakeAt[c] > dateNow

LimiterFrame == UNCHANGED <<syncVars, objectVars, entryVars, translatorVars>>

\* after waitForRateLimit: the fields are updated and operation() is invoked
StartOperation(c) ==
    /\ lastRequestTime' = dateNow
    /\ requestCount' = requestCount + 1
    /\ lpc' = [lpc EXCEPT ![c] = "operation"]
    /\ prevStart' = lastStart
    /\ lastStart' = dateNow
    /\ UNCHANGED wakeAt

\* variant: the operation is invoked without consulting the limiter
EnterAttempt_NoPacing(c) == StartOperation(c)

\* one pass of the loop body up to the first await that yields
EnterAttempt(c) ==
    LET timeSinceLastRequest == dateNow - lastRequestTime IN
    IF timeSinceLastRequest < minInterval
    THEN /\ lpc' = [lpc EXCEPT ![c] = "delay"]
         /\ wakeAt' = [wakeAt EXCEPT ![c] = dateNow + PacingWait(timeSinceLastRequest)]
         /\ UNCHANGED <<lastRequestTime, requestCount, prevStart, lastStart>>
    ELSE StartOperation(c)

\* a caller calls executeWithRetry
Call(S) ==
    \E c \in S :
        /\ ~Active(c)
        /\ calls < MaxCalls
        /\ calls' = calls + 1
        /\ concurrent' = (concurrent \/ \E d \in Callers \ {c} : Active(d))
        /\ attempt' = [attempt EXCEPT ![c] = 0]
        /\ lastError' = [lastError EXCEPT ![c] = NoError]
        /\ thrown' = [thrown EXCEPT ![c] = NoError]
        /\ tried' = [tried EXCEPT ![c] = <<>>]
        /\ backoffs' = [backoffs EXCEPT ![c] = 0]
        /\ waits' = [waits EXCEPT ![c] = <<>>]
        /\ EnterAttempt(c)
        /\ UNCHANGED dateNow
        /\ LimiterFrame

\* the timer of waitForRateLimit fires
PacingDone(S) ==
    \E c \in S :
        /\ lpc[c] = "delay" /\ dateNow >= wakeAt[c]
        /\ StartOperation(c)
        /\ UNCHANGED <<dateNow, attempt, lastError, thrown, tried, backoffs, waits,
                       calls, concurrent>>
        /\ LimiterFrame

\* operation() resolves: executeWithRetry returns its value
OperationReturns(S) ==
    \E c \in S :
        /\ lpc[c] = "operation"
        /\ tried' = [tried EXCEPT ![c] = Append(@, [ok |-> TRUE, message |-> <<>>])]
        /\ lpc' = [lpc EXCEPT ![c] = "returned"]
        /\ UNCHANGED <<dateNow, lastRequestTime, requestCount, attempt, wakeAt,
                       lastError, thrown, backoffs, waits, prevStart, lastStart,
                       calls, concurrent>>
        /\ LimiterFrame

\* the rejected invocations of the calls on record
Failures(c) == Cardinality({i \in 1..Len(tried[c]) : ~tried[c][i].ok})
Rejected == Failures("a") + Failures("b")

\* operation() rejects: the catch block
OperationThrows(S, limit) ==
    \E c \in S : \E errorMessage \in ErrorMessages :
        LET error == [attempt |-> attempt[c] + 1, message |-> errorMessage] IN
        /\ lpc[c] = "operation"
        /\ Rejected < limit
        /\ tried' = [tried EXCEPT ![c] =
                        Append(@, [ok |-> FALSE, message |-> errorMessage])]
        /\ lastError' = [lastError EXCEPT ![c] = error]
        /\ IF isRateLimitError(errorMessage) /\ MayRetry(attempt[c])
           THEN /\ lpc' = [lpc EXCEPT ![c] = "backoff"]
                /\ wakeAt' = [wakeAt EXCEPT ![c] =
                                 dateNow + calculateBackoffDelay(attempt[c])]
                /\ backoffs' = [backoffs EXCEPT ![c] = @ + 1]
                /\ waits' = [waits EXCEPT ![c] =
                                Append(@, calculateBackoffDelay(attempt[c]))]
                /\ UNCHANGED thrown
           ELSE /\ lpc' = [lpc EXCEPT ![c] = "thrown"]
                /\ thrown' = [thrown EXCEPT ![c] = error]
                /\ UNCHANGED <<wakeAt, backoffs, waits>>
        /\ UNCHANGED <<dateNow, lastRequestTime, requestCount, attempt, prevStart,
                       lastStart, calls, concurrent>>
        /\ LimiterFrame

\* the backoff timer fires: `continue`, the next pass of the loop
BackoffDone(S) ==
    \E c \in S :
        /\ lpc[c] = "backoff" /\ dateNow >= wakeAt[c]
        /\ attempt' = [attempt EXCEPT ![c] = @ + 1]
        /\ EnterAttempt(c)
        /\ UNCHANGED <<dateNow, lastError, thrown, tried, backoffs, waits, calls,
                       concurrent>>
        /\ LimiterFrame

\* time passes
Tick ==
    /\ \/ dateNow < InitialTime + MaxTicks * Quantum
       \/ \E c \in Callers : Sleeping(c)
    /\ dateNow' = dateNow + Quantum
    /\ UNCHANGED <<lastRequestTime, requestCount, lpc, attempt, wakeAt, lastError,
                   thrown, tried, backoffs, waits, prevStart, lastStart, calls,
                   concurrent>>
    /\ LimiterFrame

NextLimiter ==
    \/ Call(Callers)
    \/ PacingDone(Callers)
    \/ OperationReturns(Callers)
    \/ OperationThrows(Callers, MaxRejections)
    \/ BackoffDone(Callers)
    \/ Tick

SpecLimiter == InitLimiter /\ [][NextLimiter]_vars

\* one caller, its calls one after another
Solo == {"a"}

NextSolo ==
    \/ Call(Solo)
    \/ PacingDone(Solo)
    \/ OperationReturns(Solo)
    \/ OperationThrows(Solo, maxRetries + 1)
    \/ BackoffDone(Solo)
    \/ Tick

\* timers fire, time passes and every invocation of the operation ends
SpecSolo ==
    /\ InitLimiter
    /\ [][NextSolo]_vars
    /\ WF_vars(Tick)
    /\ WF_vars(PacingDone(Solo))
    /\ WF_vars(BackoffDone(Solo))
    /\ WF_vars(OperationReturns(Solo) \/ OperationThrows(Solo, maxRetries + 1))

(* ==================== properties of the rate limiter =================== *)
\* the messages of ErrorMessages that contain a rate-limit or quota phrase
\* when case is ignored ("Quota", "RATE LIMIT")
RetryableMessages == {MsgQuota, MsgRateLimit}

\* the i-th invocation of the call on record was followed by a retry
Retried(c, i) ==
    \/ i < Len(tried[c])
    \/ i = Len(tried[c]) /\ lpc[c] \in {"backoff", "delay", "operation"}

(* C17: a failed invocation is retried exactly when its message contains a *)
(* rate-limit or quota phrase, case ignored, and fewer than maxRetries      *)
(* retries have been used; any other failure is thrown at once: the call    *)
(* has thrown that error, with no backoff wait for it and no further        *)
(* invocation.                                                              *)
C17_RetryIffRateLimit ==
    \A c \in Callers : \A i \in 1..Len(tried[c]) :
        ~tried[c][i].ok =>
            /\ Retried(c, i) <=>
                  (tried[c][i].message \in RetryableMessages /\ i - 1 < maxRetries)
            /\ ~Retried(c, i) =>
                  /\ lpc[c] = "thrown"
                  /\ thrown[c] = [attempt |-> i, message |-> tried[c][i].message]
                  /\ i = Len(tried[c])
                  /\ backoffs[c] = i - 1

\* a mixed-case quota error was retried, then a permanent error was thrown
C17_Witness ==
    \E c \in Callers :
        /\ lpc[c] = "thrown" /\ Len(tried[c]) = 2
        /\ tried[c][1].message = MsgQuota
        /\ tried[c][2].message = MsgNotFound

\* invocations of the operation the call on record has made
Invocations(c) == Len(tried[c]) + (IF lpc[c] = "operation" THEN 1 ELSE 0)

C18_Bounded ==
    \A c \in Callers :
        /\ Invocations(c) <= maxRetries + 1
        /\ lpc[c] = "returned" =>
              /\ tried[c][Len(tried[c])].ok
              /\ \A i \in 1..(Len(tried[c]) - 1) : ~tried[c][i].ok
        /\ lpc[c] = "thrown" =>
              /\ ~tried[c][Len(tried[c])].ok
              /\ thrown[c] = [attempt |-> Len(tried[c]),
                              message |-> tried[c][Len(tried[c])].message]

(* C18: a call makes at most maxRetries + 1 invocations; it returns on the *)
(* first invocation that succeeds or throws the error of its last           *)
(* invocation; and every call that has begun ends.                          *)
C18_Terminates ==
    /\ []C18_Bounded
    /\ \A c \in Solo : Active(c) ~> ~Active(c)

\* every invocation failed with a retryable error and the call has thrown
C18_Witness ==
    \E c \in Callers :
        /\ lpc[c] = "thrown" /\ Len(tried[c]) = maxRetries + 1
        /\ \A i \in 1..Len(tried[c]) : tried[c][i].message \in RetryableMessages

\* the time between the starts of the last two invocations
Gap == lastStart - prevStart

C20_SharedGate ==
    prevStart > 0 => lastStart >= prevStart + minInterval

\* a deadline the caller of the run has in mind: the executor and syncOnce
\* take no such argument, so nothing in the limiter reads it
RunDeadline == InitialTime + Quantum

(* C21: for a call whose first invocation started by the run deadline, no  *)
(* retry is started after the deadline, and no pacing wait or backoff       *)
(* sleep of the call is still pending once the deadline has passed.          *)
C21_DeadlineBounds ==
    \A c \in Solo :
        (calls = 1 /\ requestCount >= 1
            /\ (IF requestCount = 1 THEN lastStart ELSE prevStart) <= RunDeadline)
          => /\ lastStart <= RunDeadline
             /\ dateNow > RunDeadline => lpc[c] \notin {"delay", "backoff"}

(* ====================== the entry points of a run ====================== *)
(* The handlers of POST /api/sync and GET /api/cron await syncOnce() and    *)
(* answer; nothing else is done before the call. Requests are served        *)
(* concurrently: the runs interleave at their awaits, one loop iteration    *)
(* (remote call and store write) being taken as one step. Remote calls and  *)
(* store writes fail here only for the reason the state gives: an update or *)
(* delete of a remote event that is gone, a create of a row whose uid is    *)
(* already stored, an update or delete of a row that is not there.          *)
MaxRequests == 1

\* feeds whose resolution does not read the clock
EntryFeeds ==
    {f \in Feeds :
        /\ f["u"] \in {VEvent("u", "A", "", "", <<>>),
                       VEvent("u", "A", Weekly, "", <<Nested("A", "D1")>>)}
        /\ f["v"] \in {NoEntry, VEvent("v", "A", "", "", <<>>)}}

InitEntry ==
    /\ SyncInit /\ feed \in EntryFeeds
    /\ NoObjects
    /\ LimiterFresh
    /\ NoRequests
    /\ NoTranslation

EntryFrame == UNCHANGED <<clock, lastLog, runVars, histVars, objectVars,
                          limiterVars, translatorVars>>

Running(r) == req[r].pc # "idle"

\* the position after loop iteration idx of the run's current phase
NextPosition(run) ==
    LET p == run.parsed IN
    IF run.idx < PhaseLen(run.pc, p.recurringEvents, p.recurringExceptions,
                          p.parsedEvents, run.existingMappings)
    THEN [pc |-> run.pc, idx |-> run.idx + 1]
    ELSE [pc |-> PhaseFrom(PhaseIndex(run.pc) + 1, p.recurringEvents,
                           p.recurringExceptions, p.parsedEvents,
                           run.existingMappings),
          idx |-> 1]

Moved(run) == [run EXCEPT !.pc = NextPosition(run).pc,
                          !.idx = NextPosition(run).idx]

\* the handler is invoked and calls syncOnce: the feed is fetched and parsed
Receive(r) ==
    /\ ~Running(r)
    /\ req[r].served < MaxRequests
    /\ req' = [req EXCEPT ![r] =
                 [NoRun EXCEPT !.pc = "parsed",
                               !.parsed = fetchAndParseICSWithRecurrence(
                                              feed, clock, FALSE),
                               !.served = req[r].served + 1]]
    /\ UNCHANGED <<feed, store, remote, nextId>>
    /\ EntryFrame

\* prisma.mapping.findMany() and the run-local table built from it
Snapshot(r) ==
    /\ req[r].pc = "parsed"
    /\ LET p == req[r].parsed IN
       req' = [req EXCEPT ![r] =
                 [@ EXCEPT !.existingMappings = store,
                           !.uidToGoogleId =
                               [u \in Uids(store) |->
                                   store[FindIndex(store, u)].googleEventId],
                           !.pc = PhaseFrom(1, p.recurringEvents,
                                     p.recurringExceptions, p.parsedEvents,
                                     store)]]
    /\ UNCHANGED <<feed, store, remote, nextId>>
    /\ EntryFrame

\* the event and the fingerprint iteration idx of a create/update loop is about
CurrentEvent(run) ==
    CASE run.pc = "masters" -> run.parsed.recurringEvents[run.idx]
      [] run.pc = "exceptions" -> run.parsed.recurringExceptions[run.idx]
      [] run.pc = "singles" -> run.parsed.parsedEvents[run.idx]

FingerprintFor(run) ==
    IF run.pc = "masters"
    THEN createMasterEventFingerprint(CurrentEvent(run),
             RelatedExceptions(run.parsed.recurringExceptions,
                               CurrentEvent(run).uid))
    ELSE CurrentEvent(run).fingerprint

\* the iteration makes no call: missing master, or a single handled before
Passed(run) ==
    \/ /\ run.pc = "exceptions"
       /\ ~MasterResolved(run.uidToGoogleId, CurrentEvent(run).originalUid)
    \/ /\ run.pc = "singles"
       /\ \/ CurrentEvent(run).uid \in Uids(run.parsed.recurringEvents)
          \/ CurrentEvent(run).uid \in Uids(run.parsed.recurringExceptions)

\* one iteration of the masters, exceptions or singles loop
UpsertStep(r) ==
    /\ req[r].pc \in {"masters", "exceptions", "singles"}
    /\ LET run == req[r]
           ev == CurrentEvent(run)
           uid == ev.uid
           fingerprint == FingerprintFor(run)
           has == uid \in DOMAIN run.uidToGoogleId
           k == FindIndex(run.existingMappings, uid)
           same == has /\ k # 0
                     /\ run.existingMappings[k].fingerprint = fingerprint
           j == FindIndex(store, uid)
       IN
       IF Passed(run) \/ same
       THEN /\ req' = [req EXCEPT ![r] = Moved(run)]
            /\ UNCHANGED <<store, remote, nextId>>
       ELSE IF has
       THEN IF run.uidToGoogleId[uid] \notin remote
            THEN \* events.update rejects: the remote event is gone
                 /\ req' = [req EXCEPT ![r] =
                              [Moved(run) EXCEPT !.errors = @ + 1]]
                 /\ UNCHANGED <<store, remote, nextId>>
            ELSE /\ store' = IF j = 0 THEN store
                             ELSE [store EXCEPT ![j] =
                                    IF ev.isException
                                    THEN [@ EXCEPT !.fingerprint = fingerprint,
                                             !.isException = TRUE,
                                             !.originalUid = ev.originalUid,
                                             !.exceptionDate = ev.exceptionDate]
                                    ELSE [@ EXCEPT !.fingerprint = fingerprint]]
                 /\ req' = [req EXCEPT ![r] =
                              [Moved(run) EXCEPT
                                  !.errors = IF j = 0 THEN @ + 1 ELSE @]]
                 /\ UNCHANGED <<remote, nextId>>
       ELSE /\ remote' = remote \cup {nextId}
            /\ nextId' = nextId + 1
            /\ store' = IF j # 0 THEN store
                        ELSE Append(store,
                                 Row(uid, nextId, fingerprint, ev.isException,
                                     ev.originalUid, ev.exceptionDate))
            /\ req' = [req EXCEPT ![r] =
                         [Moved(run) EXCEPT
                             !.created = @ \cup {uid},
                             !.errors = IF j # 0 THEN @ + 1 ELSE @,
                             !.uidToGoogleId =
                                 IF run.pc = "masters" /\ j = 0
                                 THEN MapSet(@, uid, nextId) ELSE @]]
    /\ UNCHANGED feed
    /\ EntryFrame

\* one iteration of the deletion loop
CleanupStep(r) ==
    /\ req[r].pc = "deletion"
    /\ LET run == req[r]
           mapping == run.existingMappings[run.idx]
           uid == mapping.uid
           j == FindIndex(store, uid)
       IN
       IF ~StaleMapping(uid, Uids(run.parsed.parsedEvents),
                        Uids(run.parsed.recurringEvents),
                        Uids(run.parsed.recurringExceptions))
       THEN /\ req' = [req EXCEPT ![r] = Moved(run)]
            /\ UNCHANGED <<store, remote>>
       ELSE \* events.delete succeeds, or answers that the event is gone
            /\ remote' = remote \ {mapping.googleEventId}
            /\ store' = IF j = 0 THEN store ELSE RemoveUid(store, uid)
            /\ req' = [req EXCEPT ![r] =
                         [Moved(run) EXCEPT
                             !.errors = IF j = 0 THEN @ + 1 ELSE @]]
    /\ UNCHANGED <<feed, nextId>>
    /\ EntryFrame

\* syncOnce returns and the handler answers
Respond(r) ==
    /\ req[r].pc = "done"
    /\ req' = [req EXCEPT ![r] = [@ EXCEPT !.pc = "idle"]]
    /\ UNCHANGED <<feed, store, remote, nextId>>
    /\ EntryFrame

\* the publisher changes the feed, at any moment
Publish ==
    /\ changes < MaxFeedChanges
    /\ changes' = changes + 1
    /\ \E f \in EntryFeeds \ {feed} : feed' = f
    /\ UNCHANGED <<clock, store, remote, nextId, lastLog, runVars, runs,
                   failures, sameFeed, prevClean, prevParsed, stage, lost,
                   failed, objectVars, limiterVars, entryVars, translatorVars>>

NextEntry ==
    \/ \E r \in Requests :
          \/ Receive(r)
          \/ Snapshot(r)
          \/ UpsertStep(r)
          \/ CleanupStep(r)
          \/ Respond(r)
    \/ Publish

SpecEntry == InitEntry /\ [][NextEntry]_vars

\* the identities a run found unmapped in its snapshot and created remotely
CreatedUnmapped(r) ==
    {uid \in req[r].created : uid \notin Uids(req[r].existingMappings)}

(* C22: the entry points let at most one run be in progress, so that no    *)
(* two runs both read a snapshot in which the same identity is unmapped     *)
(* and both create a remote event for it.                                   *)
C22_SingleFlight ==
    \A r, s \in Requests :
        r # s => CreatedUnmapped(r) \cap CreatedUnmapped(s) = {}

(* ======================== the translator at work ======================= *)
(* An event is handed to the translator as the run hands it: a single or   *)
(* an exception to createGoogleEventBody, a master with its rule to         *)
(* createGoogleRecurringEventBody. The process runs in UTC or one hour      *)
(* ahead of it.                                                             *)
StartHours == {0, 9, 23}
DurationHours == {1, 23, 24, 48}
ProcessZones == {0, 1}
Rules == {"", Weekly, WeeklyEastern, WeeklyEasternUntil, WeeklyUntilZ,
          WeeklyUntil}

TranslatorInputs ==
    {[vevent |-> TranslatorEvent(summary, start, start + d, FALSE, Undefined),
      rrule |-> rrule, zone |-> zone, body |-> <<>>] :
        summary \in {"A", "Office day"}, start \in StartHours,
        d \in DurationHours, rrule \in Rules, zone \in ProcessZones}

InitTranslator ==
    /\ SyncInit /\ feed = EmptyFeed
    /\ NoObjects
    /\ LimiterFresh
    /\ NoRequests
    /\ tr \in TranslatorInputs

TranslatorFrame == UNCHANGED <<syncVars, objectVars, limiterVars, entryVars>>

\* the body of a create or update of a single event or an exception
TranslateEvent ==
    /\ tr.body = <<>> /\ tr.rrule = ""
    /\ tr' = [tr EXCEPT !.body = <<createGoogleEventBody(tr.vevent, tr.zone)>>]
    /\ TranslatorFrame

\* the body of a create or update of a master
TranslateRecurring ==
    /\ tr.body = <<>> /\ tr.rrule # ""
    /\ tr' = [tr EXCEPT !.body =
                 <<createGoogleRecurringEventBody(tr.vevent, tr.rrule, tr.zone)>>]
    /\ TranslatorFrame

NextTranslator == TranslateEvent \/ TranslateRecurring

SpecTranslator == InitTranslator /\ [][NextTranslator]_vars

Translated == tr.body # <<>>
Body == tr.body[1]

(* C23: every body whose start and end are timed carries a time zone       *)
(* identifier on both, for a single or an exception as for a master.        *)
C23_TimedHasZone ==
    Translated =>
        /\ Body.start.dateTime # <<>> => Body.start.timeZone # Undefined
        /\ Body.end.dateTime # <<>> => Body.end.timeZone # Undefined

\* the event covers whole days of the UTC calendar: it starts at 00:00 of its
\* first day and ends at 23:00 of that day or at the 00:00 after its last day
CoversDays(vevent) ==
    /\ UTCHours(vevent.start) = 0
    /\ \/ vevent.end = vevent.start + 23
       \/ UTCHours(vevent.end) = 0 /\ vevent.end > vevent.start

FirstDay(vevent) == UTCDate(vevent.start)
LastDay(vevent) ==
    IF UTCHours(vevent.end) = 0 THEN UTCDate(vevent.end) - 1
    ELSE UTCDate(vevent.end)

(* C24: an event covering days D1..D2 and classified all-day is sent with  *)
(* start date D1 and end date D2 + 1, for the 23-hour pattern and for an    *)
(* end at the midnight after D2 alike.                                      *)
C24_ExclusiveEnd ==
    (/\ Translated /\ CoversDays(tr.vevent)
     /\ isAllDayEvent(tr.vevent, tr.zone)) =>
        /\ Body.start.date = <<FirstDay(tr.vevent)>>
        /\ Body.end.date = <<LastDay(tr.vevent) + 1>>

\* hours the zone's wall clock is ahead of UTC on the day the rules end
ZoneOffset(timezone) ==
    CASE timezone = "America/New_York" -> 0 - 5
      [] OTHER -> 0

(* C25: an UNTIL without a zone suffix is emitted as the UTC instant of    *)
(* that wall-clock time in the rule's declared zone; an UNTIL ending in Z   *)
(* is emitted unchanged.                                                    *)
C25_UntilInRuleZone ==
    (Translated /\ UntilMatch(tr.rrule) # <<>> /\ Body.recurrence # <<>>) =>
        LET until == UntilMatch(tr.rrule)[1]
            emitted == Body.recurrence[1].until
        IN IF until.z THEN emitted = <<until>>
           ELSE TzidMatch(tr.rrule) # Undefined =>
                  emitted = <<[wall |-> until.wall - ZoneOffset(
                                   normalizeTimezone(TzidMatch(tr.rrule))),
                               z |-> TRUE]>>

(* =================== properties of the run, continued ================== *)
SuccessfulCreates ==
    {i \in 1..Len(trace) : trace[i].op = "create" /\ trace[i].res = "ok"}

(* C26: a create that succeeded remotely counts as created even when its   *)
(* row could not be stored, and the run goes on; the next run on the        *)
(* unchanged feed issues a create for the same identity, and when that      *)
(* create succeeds the calendar holds two events for the identity.          *)
C26_LostMappingDuplicates ==
    Finished =>
        /\ created = Cardinality(SuccessfulCreates)
        /\ [i \in 1..Len(trace) |-> trace[i].uid] = ExpectedVisits
        /\ (runs >= 2 /\ sameFeed) =>
              \A l \in lost :
                  \E i \in 1..Len(trace) :
                      /\ trace[i].uid = l[1] /\ trace[i].op = "create"
                      /\ trace[i].res = "ok" =>
                            (trace[i].id # l[2] /\ {l[2], trace[i].id} \subseteq remote)

(* C27: when a run has ended, every stored mapping of an exception names,  *)
(* as its originalUid, the uid of a mapping that is in the store.           *)
C27_ExceptionHasMaster ==
    pc = "done" =>
        \A k \in 1..Len(store) :
            store[k].isException => <<store[k].originalUid>> \in Uids(store)

(* C28: the status logged for a run is SUCCESS exactly when the run        *)
(* recorded no error, and PARTIAL when it recorded at least one error and   *)
(* completed at least one create, update or delete.                         *)
C28_StatusOfRun ==
    lastLog.status # "" =>
        /\ lastLog.status = "SUCCESS" <=> lastLog.errors = 0
        /\ (/\ lastLog.errors >= 1
            /\ lastLog.created + lastLog.updated + lastLog.deleted >= 1)
              => lastLog.status = "PARTIAL"

\* identities mapped in the snapshot that the previous run resolved as
\* singles and this run resolves as masters
Promoted ==
    {uid \in Uids(recurringEvents) :
        uid \in Uids(existingMappings) /\ uid \in Uids(prevParsed.parsedEvents)}

CallsFor(uid) == {i \in 1..Len(trace) : trace[i].uid = uid /\ IsCall(trace[i])}

(* C29: an identity mapped as a single by an earlier run and now a master  *)
(* is updated in place: no create and no delete is issued for it, every     *)
(* call for it is an update of the remote id on record, exactly one when    *)
(* the stored fingerprint differs, and its mapping keeps that remote id.    *)
C29_PromotedInPlace ==
    Finished =>
        \A uid \in Promoted :
            LET m == existingMappings[FindIndex(existingMappings, uid)]
                ev == recurringEvents[FindIndex(recurringEvents, uid)]
            IN /\ \A i \in CallsFor(uid) :
                      trace[i].op = "update" /\ trace[i].id = m.googleEventId
               /\ m.fingerprint # CurrentFingerprint(ev)
                      => Cardinality(CallsFor(uid)) = 1
               /\ uid \in Uids(store)
               /\ store[FindIndex(store, uid)].googleEventId = m.googleEventId

\* a promoted single was updated and stale mappings were looked for
C29_Witness ==
    /\ Finished
    /\ \E uid \in Promoted : \E i \in CallsFor(uid) :
          /\ trace[i].op = "update" /\ trace[i].res = "ok" /\ trace[i].db = "ok"
          /\ trace[Len(trace)].phase = "deletion"
          /\ store[FindIndex(store, uid)].fingerprint
                # existingMappings[FindIndex(existingMappings, uid)].fingerprint

RowOf(seq, uid) == seq[FindIndex(seq, uid)]

\* a call of the run on the identity with the operation and one of the results
Answered(uid, op, results) ==
    \E i \in 1..Len(trace) :
        trace[i].uid = uid /\ trace[i].op = op /\ trace[i].res \in results

CountAnswered(op, results, dbs) ==
    Cardinality({i \in 1..Len(trace) : /\ trace[i].op = op
                                       /\ trace[i].res \in results
                                       /\ trace[i].db \in dbs})

\* every difference between the store and the store at the start of the run
\* follows a remote call on that identity that succeeded, and the counters
\* count the calls that succeeded
StoreFollowsRemote ==
    pc \notin {"idle"} =>
        /\ \A uid \in Uids(store) \ Uids(store0) : Answered(uid, "create", {"ok"})
        /\ \A uid \in Uids(store0) \ Uids(store) :
              Answered(uid, "delete", {"ok", "gone"})
        /\ \A uid \in Uids(store) \cap Uids(store0) :
              RowOf(store, uid) # RowOf(store0, uid)
                 => /\ Answered(uid, "update", {"ok"})
                    /\ RowOf(store, uid).googleEventId
                          = RowOf(store0, uid).googleEventId
        /\ created = CountAnswered("create", {"ok"}, {"ok", "fail"})
        /\ updated = CountAnswered("update", {"ok"}, {"ok", "fail"})
        /\ deleted = CountAnswered("delete", {"ok"}, {"ok", "fail"})
                     + CountAnswered("delete", {"gone"}, {"ok"})

\* every remote call that failed in the last run is made again by this run,
\* which resolved the same feed
FailedRetried ==
    (Finished /\ runs >= 2 /\ sameFeed) =>
        \A f \in failed : CountCalls(f[1], f[2]) >= 1

(* C31: the store differs from the store at the start of the run only     *)
(* where a remote create, update or delete of that identity succeeded, the *)
(* counters count the successful calls, and a call that failed is made     *)
(* again by the next run on the same feed.                                 *)
C31_StoreFollowsRemote == StoreFollowsRemote /\ FailedRetried

(* ========================= exclusion-date lines ======================== *)
\* the exceptions of the resolved feed whose originalUid is the master's uid
LinkedTo(uid) ==
    {k \in 1..Len(recurringExceptions) :
        <<recurringExceptions[k].originalUid>> = uid}

LinesOn(lines, date) == Cardinality({l \in 1..Len(lines) : lines[l].local = date})

LinkedOn(uid, date) ==
    Cardinality({k \in LinkedTo(uid) : recurringExceptions[k].exceptionDate = date})

MasterCall(e) == e.phase = "masters" /\ e.op \in {"create", "update"}

(* C32: a remote create or update of a master carries as many exclusion-   *)
(* date lines as the feed has exceptions linked to that master, on every    *)
(* date as many lines as linked exceptions of that date, and so no line for *)
(* another date; the lines depend on the master and its exceptions only,    *)
(* not on whether the call is a create or an update.                        *)
C32_ExdatePerException ==
    \A i \in 1..Len(trace) :
        MasterCall(trace[i]) =>
            /\ Len(trace[i].exdates) = Cardinality(LinkedTo(trace[i].uid))
            /\ \A l \in 1..Len(trace[i].exdates) :
                  LinkedOn(trace[i].uid, trace[i].exdates[l].local) >= 1
            /\ \A k \in LinkedTo(trace[i].uid) :
                  LinesOn(trace[i].exdates, recurringExceptions[k].exceptionDate)
                     = LinkedOn(trace[i].uid, recurringExceptions[k].exceptionDate)

\* a master with two exceptions of different dates was updated with two lines
C32_Witness ==
    \E i \in 1..Len(trace) :
        /\ MasterCall(trace[i]) /\ trace[i].op = "update" /\ trace[i].res = "ok"
        /\ Len(trace[i].exdates) = 2
        /\ trace[i].exdates[1].local # trace[i].exdates[2].local

(* ===================== the three resolver outputs ====================== *)
\* how often the entry under the key occurs in a list of plain events
PlacedIn(list, key) ==
    Cardinality({i \in 1..Len(list) : list[i].uid = <<key>>})

\* how often the top-level entry under the key occurs among the exceptions
PlacedAsException(key) ==
    Cardinality({i \in 1..Len(recurringExceptions) :
                    recurringExceptions[i].vevent = feed[key]})

Placement(key) ==
    <<PlacedIn(parsedEvents, key), PlacedIn(recurringEvents, key),
      PlacedAsException(key)>>

\* the run resolved the feed
ResolvedFeed == pc # "idle" /\ fetched # "fetch_fail"

MaxAttempt == 8

\* the waits of a call with the default configuration, in milliseconds
DefaultWaits == <<100, 200, 400>>

Capped(k) == IF baseDelay * 2^k < maxDelay THEN baseDelay * 2^k ELSE maxDelay

(* C34: the i-th backoff wait of a call, the one after failed attempt       *)
(* i - 1, is min(baseDelay * 2^(i-1), maxDelay): 100, 200, 400 ms; the waits *)
(* of a call never decrease and never exceed maxDelay, and the delay         *)
(* computed for any attempt is capped the same way.                         *)
C34_BackoffWaits ==
    /\ \A c \in Callers :
          /\ Len(waits[c]) = backoffs[c]
          /\ Len(waits[c]) <= maxRetries
          /\ \A i \in 1..Len(waits[c]) :
                /\ waits[c][i] = Capped(i - 1)
                /\ waits[c][i] = DefaultWaits[i]
                /\ waits[c][i] <= maxDelay
                /\ i > 1 => waits[c][i - 1] <= waits[c][i]
    /\ \A k \in 0..MaxAttempt :
          /\ calculateBackoffDelay(k) = Capped(k)
          /\ calculateBackoffDelay(k) <= maxDelay
          /\ k > 0 => calculateBackoffDelay(k - 1) <= calculateBackoffDelay(k)

\* a call waited three times and its fourth invocation is under way
C34_Witness ==
    /\ waits["a"] = DefaultWaits
    /\ lpc["a"] = "operation"
    /\ Len(tried["a"]) = maxRetries

(* ===================== the states of one call ========================== *)
(* Idle is "idle", Throttled is the pass through waitForRateLimit (the      *)
(* position "delay" while its timer is pending), InFlight is "operation",   *)
(* BackoffWait is "backoff", Success is "returned" and PermanentFailure is  *)
(* "thrown"; a RetryableFailure is the rejection that enters the backoff.   *)
Ended(c) == lpc[c] \in {"idle", "returned", "thrown"}

\* the pass through waitForRateLimit made in this step ends in a pacing wait
\* or, with the interval already elapsed, in the invocation
Throttle(c) ==
    IF dateNow - lastRequestTime < minInterval
    THEN /\ lpc'[c] = "delay"
         /\ wakeAt'[c] = lastRequestTime + minInterval
         /\ requestCount' = requestCount
    ELSE /\ lpc'[c] = "operation"
         /\ requestCount' = requestCount + 1
         /\ lastRequestTime' = dateNow

CallStep(c) ==
    \/ /\ lpc'[c] = lpc[c]
       /\ requestCount' = requestCount /\ tried'[c] = tried[c]
       /\ attempt'[c] = attempt[c]
    \/ /\ Ended(c)
       /\ attempt'[c] = 0 /\ tried'[c] = <<>> /\ waits'[c] = <<>>
       /\ Throttle(c)
    \/ /\ lpc[c] = "delay" /\ lpc'[c] = "operation"
       /\ dateNow >= wakeAt[c]
       /\ requestCount' = requestCount + 1
       /\ attempt'[c] = attempt[c]
    \/ /\ lpc[c] = "operation" /\ lpc'[c] \in {"returned", "thrown"}
       /\ Len(tried'[c]) = Len(tried[c]) + 1
       /\ tried'[c][Len(tried'[c])].ok = (lpc'[c] = "returned")
       /\ requestCount' = requestCount
    \/ /\ lpc[c] = "operation" /\ lpc'[c] = "backoff"
       /\ Len(tried'[c]) = Len(tried[c]) + 1
       /\ ~tried'[c][Len(tried'[c])].ok
       /\ Len(waits'[c]) = Len(waits[c]) + 1
       /\ wakeAt'[c] = dateNow + waits'[c][Len(waits'[c])]
       /\ requestCount' = requestCount
    \/ /\ lpc[c] = "backoff"
       /\ dateNow >= wakeAt[c]
       /\ attempt'[c] = attempt[c] + 1
       /\ tried'[c] = tried[c]
       /\ Throttle(c)

(* C35: a call moves only Idle -> Throttled -> InFlight -> Success,         *)
(* PermanentFailure or RetryableFailure, and RetryableFailure ->            *)
(* BackoffWait -> Throttled: every invocation follows a pass through the    *)
(* limiter, every retry follows a backoff wait that has elapsed and then    *)
(* such a pass, and a call that has returned or thrown makes no further     *)
(* step.                                                                    *)
C35_CallTransitions == [][\A c \in Solo : CallStep(c)]_vars

\* a call was throttled, failed, backed off, was invoked again and returned
C35_Witness ==
    /\ lpc["a"] = "returned"
    /\ Len(tried["a"]) = 2 /\ Len(waits["a"]) = 1
    /\ calls = 2

(* =================== successful calls per identity ===================== *)
\* the calls of the run on the identity that succeeded
Successes(uid) ==
    {i \in 1..Len(trace) : /\ trace[i].uid = uid
                           /\ trace[i].op \in {"create", "update", "delete"}
                           /\ trace[i].res = "ok"}

\* what the calls on the identity added to created + updated + deleted
Counted(uid) ==
    Cardinality(Successes(uid))
    + Cardinality({i \in 1..Len(trace) : /\ trace[i].uid = uid
                                         /\ trace[i].op = "delete"
                                         /\ trace[i].res = "gone"
                                         /\ trace[i].db = "ok"})

(* C36: in one run at most one remote create, update or delete succeeds    *)
(* for an identity, and the identity adds at most one to                    *)
(* created + updated + deleted.                                             *)
C36_OneSuccessPerIdentity ==
    \A i \in 1..Len(trace) :
        /\ Cardinality(Successes(trace[i].uid)) <= 1
        /\ Counted(trace[i].uid) <= 1

(* ============================ convergence ============================== *)
(* The feed is the one the first run finds and none of its entries makes    *)
(* the resolver read the clock; runs are started by the scheduler again and *)
(* again, without end, and every step of a run is taken.                    *)
InitSteady == Init /\ ~ReadsClock(feed)

\* a further run, beyond those counted
StartAgain ==
    /\ runs = MaxRuns
    /\ runs' = runs
    /\ BeginRun

NextSteady ==
    \/ StartRun
    \/ StartAgain
    \/ MasterStep
    \/ ExceptionStep
    \/ SingleStep
    \/ DeleteStep
    \/ FinishRun

SpecSteady == InitSteady /\ [][NextSteady]_vars /\ WF_vars(NextSteady)

\* no call and no write can fail any more, and two further runs remain
Healed == pc = "idle" /\ failures = MaxFailures /\ runs <= MaxRuns - 2

\* the store holds one row per identity the run resolved, with the
\* fingerprint the run computed for it, and no other row
StoreMatchesFeed ==
    /\ Uids(store) = FeedUids
    /\ Len(store) = Cardinality(FeedUids)
    /\ \A i \in 1..Len(Resolved) :
          RowOf(store, Resolved[i].uid).fingerprint = CurrentFingerprint(Resolved[i])

\* a run has ended that made no remote call and left the store as the feed
Settled == Finished /\ Calls = <<>> /\ StoreMatchesFeed

(* C37: once no call and no write fails any more, a run on the fixed feed  *)
(* ends with one mapping per feed identity, carrying the current            *)
(* fingerprint, and none for another identity, having made no remote call;  *)
(* and every run that ends after such a run has made no remote call.        *)
C37_Converges ==
    /\ Healed ~> Settled
    /\ [](Settled => [](pc = "done" => Calls = <<>>))

(* ===================== whole days and all-day events =================== *)
FullDays(vevent) ==
    vevent.end - vevent.start > 0 /\ (vevent.end - vevent.start) % 24 = 0

\* the body is sent with date-only start and end
SentAllDay == Body.start.date # <<>> /\ Body.end.date # <<>>

\* the event starts and ends at 00:00, both in the zone of the process or
\* both in UTC
MidnightToMidnight(vevent, zone) ==
    \/ LocalHours(vevent.start, zone) = 0 /\ LocalHours(vevent.end, zone) = 0
    \/ UTCHours(vevent.start) = 0 /\ UTCHours(vevent.end) = 0

====
